---- MODULE Spec2Model ----
(***************************************************************************)
(* The agent backend of 3997-chatbot-ollama: the LangGraph agent workflow  *)
(* (src/src/agent/graph.py) and the event streamer that drives it          *)
(* (src/src/streaming.py, agent_stream_generator).                         *)
(*                                                                         *)
(* Two specifications share the graph's node actions:                      *)
(*   GraphSpec  one invocation of a compiled graph, as the unit tests of   *)
(*              tests/test_agent_graph.py make it (workflow.invoke(state)) *)
(*   Spec       one /api/agent/chat request served by                      *)
(*              agent_stream_generator, which builds the graph, streams    *)
(*              one execution of it (agent.astream) and then executes it a *)
(*              second time (agent.invoke) to obtain the final state.      *)
(*                                                                         *)
(* Further specifications follow single parts of the program:              *)
(*   CancelSpec    Spec with a client that disconnects                     *)
(*   PairSpec      two /api/agent/chat requests served concurrently        *)
(*   PassSpec      one /api/chat request (ollama_stream_generator)         *)
(*   ToolSpec      one direct call of a tool function of tools.py          *)
(*   CodecSpec     encode_decode_text: a text encoded and decoded again    *)
(*   ToolNodeSpec  one tool step, followed call by call                    *)
(***************************************************************************)
EXTENDS Integers, Sequences, FiniteSets, TLC

(***************************************************************************)
(* Bounds of the model.                                                    *)
(***************************************************************************)
\* the largest configured value of MAX_ITERATIONS that is explored
MaxCap == 2
\* the most tool calls the model puts into one response
MaxCalls == 2
\* the most lines the backend sends in one response
MaxLines == 3
\* the longest text handed to encode_decode_text, in code points
MaxText == 3
\* the most tool calls of the response whose tool step is followed call by call
MaxThreads == 3

(***************************************************************************)
(* Program constants.                                                      *)
(***************************************************************************)
\* int(os.getenv("MAX_ITERATIONS", "2")): the default cap
DefaultMaxIterations == 2
\* latest_result["result"][:500]
DisplayLimit == 500

\* the values the environment may configure for MAX_ITERATIONS
CapValues == (0 - 1)..MaxCap

(***************************************************************************)
(* Messages.  A LangChain message is a record; `type` tells the class      *)
(* (SystemMessage, HumanMessage, AIMessage, ToolMessage).  A tool call is  *)
(* [id, name, args]; the id is <<turn, index>>, fresh within a run.        *)
(***************************************************************************)
NoId == <<>>

SystemMessage(c) ==
    [type |-> "system", content |-> c, tool_calls |-> <<>>,
     tool_call_id |-> NoId, name |-> ""]

HumanMessage(c) ==
    [type |-> "human", content |-> c, tool_calls |-> <<>>,
     tool_call_id |-> NoId, name |-> ""]

AIMessage(c, calls) ==
    [type |-> "ai", content |-> c, tool_calls |-> calls,
     tool_call_id |-> NoId, name |-> ""]

ToolMessage(c, toolName, callId) ==
    [type |-> "tool", content |-> c, tool_calls |-> <<>>,
     tool_call_id |-> callId, name |-> toolName]

Last(s) == s[Len(s)]

\* get_system_prompt(): the rendered template, one fixed text
get_system_prompt == "You are a helpful assistant with tools."

(***************************************************************************)
(* The tool registry.  get_tools() returns the seven tools of tools.py;    *)
(* the tests replace it by [] and by [calculator].                         *)
(***************************************************************************)
AllTools ==
    {"calculator", "unit_converter", "get_current_time", "get_timezone_time",
     "days_between_dates", "text_analyzer", "encode_decode_text"}

Registries == {{}, AllTools}

\* the names the ToolNode lists in its message about an unknown tool:
\* ", ".join of the names, in the order of get_tools()
AvailableTools ==
    "calculator, unit_converter, get_current_time, get_timezone_time, "
    \o "days_between_dates, text_analyzer, encode_decode_text"

\* an error result: a text that begins with "Error"
IsErrorResult(text) == Len(text) >= 5 /\ SubSeq(text, 1, 5) = "Error"

\* What a call of a tool function does: it returns a text or raises.
Returned(text) == [raised |-> FALSE, text |-> text, exc |-> ""]

Raised(class, message) == [raised |-> TRUE, text |-> message, exc |-> class]

\* repr(e) of a raised exception
Repr(outcome) == outcome.exc \o "('" \o outcome.text \o "')"

\* the characters str.split() and str.strip() treat as white space
IsSpace(ch) == ch \in {" ", "\t", "\n"}

CharAt(text, i) == SubSeq(text, i, i)

\* len(text.split())
WordCount(text) ==
    Cardinality({i \in 1..Len(text) :
                    /\ ~IsSpace(CharAt(text, i))
                    /\ (i = 1 \/ IsSpace(CharAt(text, i - 1)))})

\* len([s for s in text.split(".") if s.strip()])
SentenceCount(text) ==
    Cardinality({i \in 1..Len(text) :
                    /\ CharAt(text, i) # "."
                    /\ (i = 1 \/ CharAt(text, i - 1) = ".")
                    /\ \E j \in i..Len(text) :
                         /\ ~IsSpace(CharAt(text, j))
                         /\ \A k \in i..j : CharAt(text, k) # "."})

\* f"{num / den:.1f}" for den > 0 (a tie rounds to the even digit)
OneDecimal(num, den) ==
    LET tenths == (10 * num) \div den
        rest == (10 * num) % den
        up == 2 * rest > den \/ (2 * rest = den /\ tenths % 2 = 1)
        shown == IF up THEN tenths + 1 ELSE tenths
    IN  ToString(shown \div 10) \o "." \o ToString(shown % 10)

\* text_analyzer(text); the pictograph that opens its text is written "#".
\* chars / words raises ZeroDivisionError when the text holds no word.
text_analyzer(text) ==
    LET words == WordCount(text)
        chars == Len(text)
        sentences == SentenceCount(text)
    IN  IF words = 0
        THEN Raised("ZeroDivisionError", "division by zero")
        ELSE Returned("# Text Analysis:\n"
                      \o "- Words: " \o ToString(words) \o "\n"
                      \o "- Characters: " \o ToString(chars) \o "\n"
                      \o "- Sentences: " \o ToString(sentences) \o "\n"
                      \o "- Avg word length: " \o OneDecimal(chars, words)
                      \o " chars")

\* str(9**999): 954 digits
Pow9_999 == "194207916858072401073330513240517841169895831937243168645765334645631807358586165476831829984964567897289883410682808509863485381763945405279379355788182053541434708898886353264614403164257835946591015853500491562156765579388944516423770646547300211711400609344237550775485394558425026601257627110879613741893863295847627378504481736441703291029360564416718984718052676789493826372811349572386149787861703350363229770343522164432121091627871310618608734044108407173015970850780786711471108639762810760748899301375323974504010469298672123113693793242558662498267897607159946316136440215024585534972601864730717278590674861331708227340510282977338127859756479389076075528672989549862138485404935127984793120586289288424045660573066638008624179879066798350622453419082976217706653276687992598885030141711458658381360884807741768071789239593772708382532520992894115725948613681993478965648216640862698897925988931145600683858128653568049999074868783790048889"

(***************************************************************************)
(* calculator.  eval is modelled by its outcomes on the expressions of the *)
(* model, as CPython 3.11 computes them with empty builtins.               *)
(***************************************************************************)
Chars(text) == [i \in 1..Len(text) |-> CharAt(text, i)]

RECURSIVE Join(_)
Join(chars) == IF chars = <<>> THEN "" ELSE Head(chars) \o Join(Tail(chars))

\* the characters the pattern [^0-9+\-*/().\s] leaves in place
AllowedChars ==
    {"0", "1", "2", "3", "4", "5", "6", "7", "8", "9",
     "+", "-", "*", "/", "(", ")", ".", " ", "\t", "\n"}

IsAllowed(ch) == ch \in AllowedChars

SanitizeNothing(expression) == expression

\* re.sub(r"[^0-9+\-*/().\s]", "", expression)
Sanitize(expression) == Join(SelectSeq(Chars(expression), IsAllowed))

\* eval(expr, {"__builtins__": {}}, {}): the value as f"{result}" prints it,
\* or the exception
PyEval(expr) ==
    CASE expr = "9**999" -> Returned(Pow9_999)
      [] expr = "2+2" -> Returned("4")
      [] expr = "2+2abc" -> Raised("SyntaxError", "invalid decimal literal (<string>, line 1)")
      [] expr = "2+2  " -> Returned("4")
      [] expr = "2+2 = x" -> Raised("SyntaxError", "invalid syntax (<string>, line 1)")
      [] expr = "1/0" -> Raised("ZeroDivisionError", "division by zero")
      [] expr = "1/0abc" -> Raised("SyntaxError", "invalid decimal literal (<string>, line 1)")
      [] expr = "1/0  " -> Raised("ZeroDivisionError", "division by zero")
      [] expr = "1/0 = x" -> Raised("SyntaxError", "invalid syntax (<string>, line 1)")
      [] expr = "(75-32)*5/9" -> Returned("23.88888888888889")
      [] expr = "(75-32)*5/9abc" -> Raised("SyntaxError", "invalid decimal literal (<string>, line 1)")
      [] expr = "(75-32)*5/9  " -> Returned("23.88888888888889")
      [] expr = "(75-32)*5/9 = x" -> Raised("SyntaxError", "invalid syntax (<string>, line 1)")
      [] expr = "2+" -> Raised("SyntaxError", "invalid syntax (<string>, line 1)")
      [] expr = "2+abc" -> Raised("NameError", "name 'abc' is not defined")
      [] expr = "2+  " -> Raised("SyntaxError", "invalid syntax (<string>, line 1)")
      [] expr = "2+ = x" -> Raised("SyntaxError", "invalid syntax (<string>, line 1)")
      [] expr = "10/4" -> Returned("2.5")
      [] expr = "10/4abc" -> Raised("SyntaxError", "invalid decimal literal (<string>, line 1)")
      [] expr = "10/4  " -> Returned("2.5")
      [] expr = "10/4 = x" -> Raised("SyntaxError", "invalid syntax (<string>, line 1)")
      [] expr = "1.5*2" -> Returned("3.0")
      [] expr = "1.5*2abc" -> Raised("SyntaxError", "invalid decimal literal (<string>, line 1)")
      [] expr = "1.5*2  " -> Returned("3.0")
      [] expr = "1.5*2 = x" -> Raised("SyntaxError", "invalid syntax (<string>, line 1)")
      [] expr = "abc" -> Raised("NameError", "name 'abc' is not defined")
      [] expr = "  " -> Raised("SyntaxError", "invalid syntax (<string>, line 0)")
      [] expr = " = x" -> Raised("SyntaxError", "invalid syntax (<string>, line 1)")
      [] expr = "0.1+0.2" -> Returned("0.30000000000000004")
      [] expr = "0.1+0.2abc" -> Raised("SyntaxError", "invalid decimal literal (<string>, line 1)")
      [] expr = "0.1+0.2  " -> Returned("0.30000000000000004")
      [] expr = "0.1+0.2 = x" -> Raised("SyntaxError", "invalid syntax (<string>, line 1)")
      [] expr = "abc2+2" -> Raised("NameError", "name 'abc2' is not defined")
      [] expr = "abc2+2abc" -> Raised("SyntaxError", "invalid decimal literal (<string>, line 1)")
      [] expr = "abc2+2 = x" -> Raised("SyntaxError", "invalid syntax (<string>, line 1)")
      [] expr = "abc1/0" -> Raised("NameError", "name 'abc1' is not defined")
      [] expr = "abc1/0abc" -> Raised("SyntaxError", "invalid decimal literal (<string>, line 1)")
      [] expr = "abc1/0 = x" -> Raised("SyntaxError", "invalid syntax (<string>, line 1)")
      [] expr = "abc(75-32)*5/9" -> Raised("NameError", "name 'abc' is not defined")
      [] expr = "abc(75-32)*5/9abc" -> Raised("SyntaxError", "invalid decimal literal (<string>, line 1)")
      [] expr = "abc(75-32)*5/9 = x" -> Raised("SyntaxError", "invalid syntax (<string>, line 1)")
      [] expr = "abc2+" -> Raised("SyntaxError", "invalid syntax (<string>, line 1)")
      [] expr = "abc2+abc" -> Raised("NameError", "name 'abc2' is not defined")
      [] expr = "abc2+ = x" -> Raised("SyntaxError", "invalid syntax (<string>, line 1)")
      [] expr = "abc10/4" -> Raised("NameError", "name 'abc10' is not defined")
      [] expr = "abc10/4abc" -> Raised("SyntaxError", "invalid decimal literal (<string>, line 1)")
      [] expr = "abc10/4 = x" -> Raised("SyntaxError", "invalid syntax (<string>, line 1)")
      [] expr = "abc1.5*2" -> Raised("SyntaxError", "invalid syntax (<string>, line 1)")
      [] expr = "abc1.5*2abc" -> Raised("SyntaxError", "invalid decimal literal (<string>, line 1)")
      [] expr = "abc1.5*2 = x" -> Raised("SyntaxError", "invalid syntax (<string>, line 1)")
      [] expr = "abcabc" -> Raised("NameError", "name 'abcabc' is not defined")
      [] expr = "abc = x" -> Raised("SyntaxError", "invalid syntax (<string>, line 1)")
      [] expr = "abc0.1+0.2" -> Raised("SyntaxError", "invalid syntax (<string>, line 1)")
      [] expr = "abc0.1+0.2abc" -> Raised("SyntaxError", "invalid decimal literal (<string>, line 1)")
      [] expr = "abc0.1+0.2 = x" -> Raised("SyntaxError", "invalid syntax (<string>, line 1)")
      [] expr = "()2+2" -> Raised("SyntaxError", "invalid syntax (<string>, line 1)")
      [] expr = "__import__('os')2+2" -> Raised("SyntaxError", "invalid syntax (<string>, line 1)")
      [] expr = "__import__('os')2+2abc" -> Raised("SyntaxError", "invalid decimal literal (<string>, line 1)")
      [] expr = "()2+2  " -> Raised("SyntaxError", "invalid syntax (<string>, line 1)")
      [] expr = "__import__('os')2+2 = x" -> Raised("SyntaxError", "invalid syntax (<string>, line 1)")
      [] expr = "()1/0" -> Raised("SyntaxError", "invalid syntax (<string>, line 1)")
      [] expr = "__import__('os')1/0" -> Raised("SyntaxError", "invalid syntax (<string>, line 1)")
      [] expr = "__import__('os')1/0abc" -> Raised("SyntaxError", "invalid decimal literal (<string>, line 1)")
      [] expr = "()1/0  " -> Raised("SyntaxError", "invalid syntax (<string>, line 1)")
      [] expr = "__import__('os')1/0 = x" -> Raised("SyntaxError", "invalid syntax (<string>, line 1)")
      [] expr = "()(75-32)*5/9" -> Raised("TypeError", "'tuple' object is not callable")
      [] expr = "__import__('os')(75-32)*5/9" -> Raised("NameError", "name '__import__' is not defined")
      [] expr = "__import__('os')(75-32)*5/9abc" -> Raised("SyntaxError", "invalid decimal literal (<string>, line 1)")
      [] expr = "()(75-32)*5/9  " -> Raised("TypeError", "'tuple' object is not callable")
      [] expr = "__import__('os')(75-32)*5/9 = x" -> Raised("SyntaxError", "invalid syntax (<string>, line 1)")
      [] expr = "()2+" -> Raised("SyntaxError", "invalid syntax (<string>, line 1)")
      [] expr = "__import__('os')2+" -> Raised("SyntaxError", "invalid syntax (<string>, line 1)")
      [] expr = "__import__('os')2+abc" -> Raised("SyntaxError", "invalid syntax (<string>, line 1)")
      [] expr = "()2+  " -> Raised("SyntaxError", "invalid syntax (<string>, line 1)")
      [] expr = "__import__('os')2+ = x" -> Raised("SyntaxError", "invalid syntax (<string>, line 1)")
      [] expr = "()10/4" -> Raised("SyntaxError", "invalid syntax (<string>, line 1)")
      [] expr = "__import__('os')10/4" -> Raised("SyntaxError", "invalid syntax (<string>, line 1)")
      [] expr = "__import__('os')10/4abc" -> Raised("SyntaxError", "invalid decimal literal (<string>, line 1)")
      [] expr = "()10/4  " -> Raised("SyntaxError", "invalid syntax (<string>, line 1)")
      [] expr = "__import__('os')10/4 = x" -> Raised("SyntaxError", "invalid syntax (<string>, line 1)")
      [] expr = "()1.5*2" -> Raised("SyntaxError", "invalid syntax (<string>, line 1)")
      [] expr = "__import__('os')1.5*2" -> Raised("SyntaxError", "invalid syntax (<string>, line 1)")
      [] expr = "__import__('os')1.5*2abc" -> Raised("SyntaxError", "invalid decimal literal (<string>, line 1)")
      [] expr = "()1.5*2  " -> Raised("SyntaxError", "invalid syntax (<string>, line 1)")
      [] expr = "__import__('os')1.5*2 = x" -> Raised("SyntaxError", "invalid syntax (<string>, line 1)")
      [] expr = "()" -> Returned("()")
      [] expr = "__import__('os')" -> Raised("NameError", "name '__import__' is not defined")
      [] expr = "__import__('os')abc" -> Raised("SyntaxError", "invalid syntax (<string>, line 1)")
      [] expr = "()  " -> Returned("()")
      [] expr = "__import__('os') = x" -> Raised("SyntaxError", "invalid syntax (<string>, line 1)")
      [] expr = "()0.1+0.2" -> Raised("SyntaxError", "invalid syntax (<string>, line 1)")
      [] expr = "__import__('os')0.1+0.2" -> Raised("SyntaxError", "invalid syntax (<string>, line 1)")
      [] expr = "__import__('os')0.1+0.2abc" -> Raised("SyntaxError", "invalid decimal literal (<string>, line 1)")
      [] expr = "()0.1+0.2  " -> Raised("SyntaxError", "invalid syntax (<string>, line 1)")
      [] expr = "__import__('os')0.1+0.2 = x" -> Raised("SyntaxError", "invalid syntax (<string>, line 1)")

\* calculator(expression): the text it returns and what it handed to eval
CalculatorRun(expression) ==
    LET safe_expression == Sanitize(expression)
        result == PyEval(safe_expression)
    IN  IF safe_expression = ""
        THEN [evaluated |-> <<>>, text |-> "Error: Invalid expression"]
        ELSE [evaluated |-> <<safe_expression>>,
              text |-> IF ~result.raised THEN "Result: " \o result.text
                       ELSE IF result.exc = "ZeroDivisionError"
                            THEN "Error: Division by zero"
                            ELSE "Error calculating expression: " \o result.text]

calculator(expression) == CalculatorRun(expression).text

\* the expressions a direct call of the calculator is given: an expression,
\* with text that is not arithmetic before and after it
CalcCores == {"2+2", "1/0", "(75-32)*5/9", "2+", "10/4", "1.5*2", "", "0.1+0.2"}

NoisePrefixes == {"", "abc", "__import__('os')"}

NoiseSuffixes == {"", "abc", " = x"}

CalcInputs ==
    {p \o c \o s : p \in NoisePrefixes, c \in CalcCores, s \in NoiseSuffixes}
    \cup {"9**999"}

\* the texts a direct call of text_analyzer is given
TextInputs ==
    {"", " ", " \n\t", "Hello world. Bye.", "one", "a.b. c", "...", "to be or not"}

ToolInputs ==
    {[name |-> "calculator", args |-> x] : x \in CalcInputs}
    \cup {[name |-> "text_analyzer", args |-> t] : t \in TextInputs}

(***************************************************************************)
(* tools.py: encode_decode_text, the two Base64 operations.  A text is the *)
(* sequence of its code points and a bytes object the sequence of its      *)
(* bytes; the result of a call is the prefix of the returned string and    *)
(* the code points that follow it.                                         *)
(***************************************************************************)
HexDigits == "0123456789abcdef"

Hex2(b) == CharAt(HexDigits, (b \div 16) + 1) \o CharAt(HexDigits, (b % 16) + 1)

Hex4(c) == Hex2(c \div 256) \o Hex2(c % 256)

IsSurrogate(c) == c >= 55296 /\ c <= 57343

\* the UTF-8 bytes of one code point
Utf8Bytes(c) ==
    IF c < 128 THEN <<c>>
    ELSE IF c < 2048 THEN <<192 + (c \div 64), 128 + (c % 64)>>
    ELSE IF c < 65536
         THEN <<224 + (c \div 4096), 128 + ((c \div 64) % 64), 128 + (c % 64)>>
         ELSE <<240 + (c \div 262144), 128 + ((c \div 4096) % 64),
                128 + ((c \div 64) % 64), 128 + (c % 64)>>

RECURSIVE Flatten(_)
Flatten(seqs) == IF seqs = <<>> THEN <<>> ELSE Head(seqs) \o Flatten(Tail(seqs))

\* text.encode(): the bytes, or UnicodeEncodeError at the first surrogate
StrEncode(text) ==
    LET bad == {i \in 1..Len(text) : IsSurrogate(text[i])}
    IN  IF bad = {}
        THEN [raised |-> FALSE, bytes |-> Flatten([i \in 1..Len(text) |-> Utf8Bytes(text[i])]),
              text |-> ""]
        ELSE LET first == CHOOSE i \in bad : \A j \in bad : i <= j
                 last == CHOOSE j \in bad :
                            /\ \A k \in first..j : k \in bad
                            /\ j + 1 \notin bad
             IN  [raised |-> TRUE, bytes |-> <<>>,
                  text |-> IF last = first
                           THEN "'utf-8' codec can't encode character '\\u"
                                \o Hex4(text[first]) \o "' in position "
                                \o ToString(first - 1) \o ": surrogates not allowed"
                           ELSE "'utf-8' codec can't encode characters in position "
                                \o ToString(first - 1) \o "-" \o ToString(last - 1)
                                \o ": surrogates not allowed"]

IsContinuation(b) == b >= 128 /\ b <= 191

\* how many bytes the sequence that starts with this byte has, 0: none
Utf8Length(lead) ==
    IF lead < 128 THEN 1
    ELSE IF lead >= 194 /\ lead <= 223 THEN 2
    ELSE IF lead >= 224 /\ lead <= 239 THEN 3
    ELSE IF lead >= 240 /\ lead <= 244 THEN 4
    ELSE 0

\* what the decoder accepts as the byte after the lead byte
SecondByteOk(lead, b) ==
    CASE lead = 224 -> b >= 160 /\ b <= 191
      [] lead = 237 -> b >= 128 /\ b <= 159
      [] lead = 240 -> b >= 144 /\ b <= 191
      [] lead = 244 -> b >= 128 /\ b <= 143
      [] OTHER -> IsContinuation(b)

Utf8CodePoint(bytes, i, n) ==
    CASE n = 1 -> bytes[i]
      [] n = 2 -> (bytes[i] - 192) * 64 + (bytes[i + 1] - 128)
      [] n = 3 -> (bytes[i] - 224) * 4096 + (bytes[i + 1] - 128) * 64
                  + (bytes[i + 2] - 128)
      [] OTHER -> (bytes[i] - 240) * 262144 + (bytes[i + 1] - 128) * 4096
                  + (bytes[i + 2] - 128) * 64 + (bytes[i + 3] - 128)

DecodeError(byte, i, why) ==
    [raised |-> TRUE, text |-> <<>>,
     message |-> "'utf-8' codec can't decode byte 0x" \o Hex2(byte)
                 \o " in position " \o ToString(i - 1) \o ": " \o why]

\* bytes.decode(): the text, or UnicodeDecodeError at the first bad sequence
RECURSIVE BytesDecodeFrom(_, _, _)
BytesDecodeFrom(bytes, i, text) ==
    IF i > Len(bytes) THEN [raised |-> FALSE, text |-> text, message |-> ""]
    ELSE LET n == Utf8Length(bytes[i])
             have == Len(bytes) - i + 1
         IN  IF n = 0 THEN DecodeError(bytes[i], i, "invalid start byte")
             ELSE IF n >= 2 /\ have >= 2 /\ ~SecondByteOk(bytes[i], bytes[i + 1])
                  THEN DecodeError(bytes[i], i, "invalid continuation byte")
             ELSE IF \E k \in 2..(n - 1) :
                        k < have /\ ~IsContinuation(bytes[i + k])
                  THEN DecodeError(bytes[i], i, "invalid continuation byte")
             ELSE IF have < n
                  THEN DecodeError(bytes[i], i, "unexpected end of data")
             ELSE BytesDecodeFrom(bytes, i + n,
                                  Append(text, Utf8CodePoint(bytes, i, n)))

BytesDecode(bytes) == BytesDecodeFrom(bytes, 1, <<>>)

\* the code point of the i-th character of the Base64 alphabet, i in 0..63
B64Char(i) ==
    IF i < 26 THEN 65 + i
    ELSE IF i < 52 THEN 97 + (i - 26)
    ELSE IF i < 62 THEN 48 + (i - 52)
    ELSE IF i = 62 THEN 43 ELSE 47

B64Pad == 61

IsB64Char(c) == \E i \in 0..63 : B64Char(i) = c

B64Index(c) == CHOOSE i \in 0..63 : B64Char(i) = c

\* the characters that encode one group of up to three bytes
B64Group(g) ==
    LET b1 == g[1]
        b2 == IF Len(g) >= 2 THEN g[2] ELSE 0
        b3 == IF Len(g) >= 3 THEN g[3] ELSE 0
    IN  <<B64Char(b1 \div 4),
          B64Char((b1 % 4) * 16 + (b2 \div 16)),
          IF Len(g) >= 2 THEN B64Char((b2 % 16) * 4 + (b3 \div 64)) ELSE B64Pad,
          IF Len(g) >= 3 THEN B64Char(b3 % 64) ELSE B64Pad>>

b64encode_without_padding(bytes) ==
    SelectSeq(Flatten([k \in 1..((Len(bytes) + 2) \div 3) |->
                 B64Group(SubSeq(bytes, 3 * k - 2,
                                 IF 3 * k <= Len(bytes) THEN 3 * k ELSE Len(bytes)))]),
              LAMBDA c : c # B64Pad)

\* base64.b64encode
b64encode(bytes) ==
    Flatten([k \in 1..((Len(bytes) + 2) \div 3) |->
                B64Group(SubSeq(bytes, 3 * k - 2,
                                IF 3 * k <= Len(bytes) THEN 3 * k ELSE Len(bytes)))])

\* binascii.a2b_base64 without strict mode, one character after another:
\* a character outside the alphabet is skipped, padding that completes a
\* group ends the data, an incomplete last group is an error
RECURSIVE B64Scan(_, _, _, _, _, _, _)
B64Scan(data, i, quad_pos, pads, left, count, out) ==
    IF i > Len(data)
    THEN IF quad_pos = 0
         THEN [raised |-> FALSE, bytes |-> out, text |-> ""]
         ELSE IF quad_pos = 1
              THEN [raised |-> TRUE, bytes |-> <<>>,
                    text |-> "Invalid base64-encoded string: number of data characters ("
                             \o ToString(count)
                             \o ") cannot be 1 more than a multiple of 4"]
              ELSE [raised |-> TRUE, bytes |-> <<>>, text |-> "Incorrect padding"]
    ELSE IF data[i] = B64Pad
         THEN IF quad_pos >= 2 /\ pads + 1 >= 4 - quad_pos
              THEN [raised |-> FALSE, bytes |-> out, text |-> ""]
              ELSE B64Scan(data, i + 1, quad_pos, pads + 1, left, count, out)
    ELSE IF ~IsB64Char(data[i])
         THEN B64Scan(data, i + 1, quad_pos, pads, left, count, out)
    ELSE LET v == B64Index(data[i])
         IN  CASE quad_pos = 0 ->
                    B64Scan(data, i + 1, 1, 0, v, count + 1, out)
               [] quad_pos = 1 ->
                    B64Scan(data, i + 1, 2, 0, v % 16, count + 1,
                            Append(out, left * 4 + (v \div 16)))
               [] quad_pos = 2 ->
                    B64Scan(data, i + 1, 3, 0, v % 4, count + 1,
                            Append(out, left * 16 + (v \div 4)))
               [] OTHER ->
                    B64Scan(data, i + 1, 0, 0, 0, count + 1,
                            Append(out, left * 64 + v))

\* base64.b64decode
b64decode(data) == B64Scan(data, 1, 0, 0, 0, 0, <<>>)

ErrorResult(message) == [prefix |-> "Error: " \o message, body |-> <<>>]

\* encode_decode_text(text, "base64_encode")
base64_encode(text) ==
    LET bytes == StrEncode(text)
    IN  IF bytes.raised THEN ErrorResult(bytes.text)
        ELSE [prefix |-> "Base64 encoded: ",
              body |-> BytesDecode(b64encode(bytes.bytes)).text]

\* encode_decode_text(text, "base64_decode")
base64_decode(text) ==
    LET bytes == StrEncode(text)
        data == b64decode(bytes.bytes)
        result == BytesDecode(data.bytes)
    IN  IF bytes.raised THEN ErrorResult(bytes.text)
        ELSE IF data.raised THEN ErrorResult(data.text)
        ELSE IF result.raised THEN ErrorResult(result.message)
        ELSE [prefix |-> "Base64 decoded: ", body |-> result.text]

\* the code points the texts are made of: h, i, a, G, =, e acute, the euro
\* sign, a face pictograph, a lone surrogate
CodePoints == {104, 105, 97, 71, 61, 233, 8364, 128512, 55296}

Texts == UNION {[1..n -> CodePoints] : n \in 0..MaxText}

\* the arguments the modelled LLM passes, cycled through in a multi-call turn
ArgCycle == <<"2+2", "1/0", "9**999">>

CallArgs(k) == [i \in 1..k |-> ArgCycle[((i - 1) % Len(ArgCycle)) + 1]]

\* the tool-call lists of one response: one call, or 2..MaxCalls calls
ToolCallArgs ==
    {<<"9**999">>} \cup {CallArgs(k) : k \in 2..MaxCalls}

CalculatorCalls(args) ==
    [i \in 1..Len(args) |-> [name |-> "calculator", args |-> args[i]]]

\* the tool calls one response may ask for: calculator calls, a tool that is
\* not registered, text_analyzer on an empty text
ToolCallRequests ==
    {CalculatorCalls(a) : a \in ToolCallArgs}
    \cup {<<[name |-> "web_search", args |-> "weather"]>>,
          <<[name |-> "text_analyzer", args |-> ""]>>}

ToolCalls(turn, requests) ==
    [i \in 1..Len(requests) |->
        [id |-> <<turn, i>>, name |-> requests[i].name, args |-> requests[i].args]]

Answers == {"Final answer", "Another answer"}

\* What llm.invoke may return on its turn-th call of a run.  With tools bound
\* the response may carry tool calls; an LLM without bound tools returns text.
ModelResponses(bound, turn) ==
    {AIMessage(c, <<>>) : c \in Answers}
    \cup (IF bound
          THEN {AIMessage("", ToolCalls(turn, r)) : r \in ToolCallRequests}
          ELSE {})

\* the responses explored while two requests are served concurrently
PairResponses(bound, turn) ==
    {AIMessage("Final answer", <<>>)}
    \cup (IF bound
          THEN {AIMessage("", ToolCalls(turn, CalculatorCalls(<<"2+2", "1/0">>)))}
          ELSE {})

\* the ways llm.invoke may raise: httpx connection failure, any other error
ModelFailures == {"connection refused", "model runtime error"}

(***************************************************************************)
(* The request.  AgentChatRequest.messages is list[dict]: a dict may lack  *)
(* the "role" or the "content" key.                                        *)
(***************************************************************************)
Requests ==
    { <<[role |-> "user", content |-> "What is 2+2?"]>>,
      <<[role |-> "system", content |-> "Be brief."],
        [role |-> "user", content |-> "Hi"],
        [role |-> "assistant", content |-> "Hello"],
        [role |-> "user", content |-> "What is 2+2?"]>>,
      <<[role |-> "assistant"]>>,
      <<[role |-> "user", content |-> "Hi"], [content |-> "no role"]>>,
      <<[role |-> "user"]>> }

ToolChoices == {"auto", "required", "none"}

\* the initial message lists of a direct workflow.invoke(state)
DirectInputs ==
    { <<HumanMessage("Compute 2+2")>>,
      <<SystemMessage("Be brief."), HumanMessage("Hello")>>,
      <<HumanMessage("Hello"), SystemMessage("Be brief.")>>,
      <<>> }

VARIABLES
    MAX_ITERATIONS,     \* graph.py: the configured cap
    ENABLE_AGENT_MODE,  \* config.py: the feature flag
    registry,           \* what get_tools() returns
    messages,           \* agent_stream_generator's argument
    tool_choice,        \* agent_stream_generator's argument
    pc,                 \* where the generator stands
    lc_messages,        \* the converted messages
    events,             \* the event records yielded so far
    agent,              \* the compiled graph: "none", "agent", "simple"
    node,               \* the graph's next node: "agent", "tools", "END", ...
    state,              \* the AgentState of the running graph
    pending,            \* the chunk astream has yielded, not yet handled
    failure,            \* what raised in this request or run, "none" if nothing
    llm_calls,          \* llm.invoke calls made for this request or run
    llm_input,          \* the arguments of the latest llm.invoke
    model_steps,        \* call_model steps of the current graph run
    tool_steps,         \* execute_tools steps of the current graph run
    executed,           \* ids of the tool calls executed in the current run
    streamed,           \* the last message of the execution astream has finished
    cancelled,          \* the client of the request has disconnected
    current,            \* the request the variables above belong to (0: the only one)
    parked,             \* the other request of two served concurrently
    ppc,                \* where ollama_stream_generator stands
    backend,            \* what the Ollama backend does with the request
    received,           \* lines of the backend response read so far
    output,             \* the strings ollama_stream_generator has yielded
    tool_call,          \* the tool function called directly, its argument
    tool_outcome,       \* what that call returned or raised
    evaluated,          \* the expressions that call handed to eval
    codec_text,         \* the text handed to encode_decode_text
    codec_results,      \* what the calls of encode_decode_text returned
    workers             \* the ToolNode's calls of the tool step in progress

vars ==
    <<MAX_ITERATIONS, ENABLE_AGENT_MODE, registry, messages, tool_choice, pc,
      lc_messages, events, agent, node, state, pending, failure, llm_calls,
      llm_input, model_steps, tool_steps, executed, streamed, cancelled, current,
      parked,
      ppc, backend, received, output, tool_call, tool_outcome, evaluated,
      codec_text, codec_results, workers>>

config == <<MAX_ITERATIONS, ENABLE_AGENT_MODE, registry, messages, tool_choice>>

\* what no step of the generator or of the graph changes
passthrough == <<ppc, backend, received, output>>

tool_run ==
    <<tool_call, tool_outcome, evaluated, codec_text, codec_results, workers>>

outside == <<cancelled, current, parked, passthrough, tool_run>>

\* what llm.invoke may return
LlmInvoke(bound, turn) ==
    IF current = 0 THEN ModelResponses(bound, turn) ELSE PairResponses(bound, turn)

NoChunk == [node |-> "none"]
NoInput == [bound |-> FALSE, messages |-> <<>>]
EmptyState == [messages |-> <<>>, tool_results |-> <<>>, iteration_count |-> 0]

\* What one call of agent_stream_generator owns: its arguments, its local
\* variables, the graph it built and the state of that graph's run.
Locals ==
    [messages |-> messages, tool_choice |-> tool_choice, pc |-> pc,
     lc_messages |-> lc_messages, events |-> events, agent |-> agent,
     node |-> node, state |-> state, pending |-> pending, failure |-> failure,
     llm_calls |-> llm_calls, llm_input |-> llm_input,
     model_steps |-> model_steps, tool_steps |-> tool_steps,
     executed |-> executed, streamed |-> streamed, cancelled |-> cancelled]

\* a call of agent_stream_generator that has not started yet
NewRequest(msgs, choice) ==
    [messages |-> msgs, tool_choice |-> choice, pc |-> "start",
     lc_messages |-> <<>>, events |-> <<>>, agent |-> "none", node |-> "idle",
     state |-> EmptyState, pending |-> NoChunk, failure |-> "none",
     llm_calls |-> 0, llm_input |-> NoInput, model_steps |-> 0,
     tool_steps |-> 0, executed |-> <<>>, streamed |-> <<>>,
     cancelled |-> FALSE]

NoRequest == NewRequest(<<>>, "none")

NoBackend == [fault |-> "none", lines |-> <<>>]
NoCall == [name |-> "", args |-> ""]
NoOutcome == [raised |-> FALSE, text |-> "", exc |-> "not called"]

\* no /api/chat request is served
NoPassthrough ==
    /\ ppc = "unused"
    /\ backend = NoBackend
    /\ received = 0
    /\ output = <<>>

\* no tool function is called directly
NoToolRun ==
    /\ tool_call = NoCall
    /\ tool_outcome = NoOutcome
    /\ evaluated = <<>>
    /\ codec_text = <<>>
    /\ codec_results = <<>>
    /\ workers = <<>>

\* no /api/agent/chat request is served and no graph is run
NoAgentRun ==
    /\ MAX_ITERATIONS = DefaultMaxIterations
    /\ ENABLE_AGENT_MODE = TRUE
    /\ registry = AllTools
    /\ messages = <<>>
    /\ tool_choice = "none"
    /\ pc = "unused"
    /\ lc_messages = <<>>
    /\ events = <<>>
    /\ agent = "none"
    /\ node = "idle"
    /\ state = EmptyState
    /\ pending = NoChunk
    /\ failure = "none"
    /\ llm_calls = 0
    /\ llm_input = NoInput
    /\ model_steps = 0
    /\ tool_steps = 0
    /\ executed = <<>>
    /\ streamed = <<>>
    /\ cancelled = FALSE
    /\ current = 0
    /\ parked = NoRequest

agent_run ==
    <<config, cancelled, current, parked, pc, lc_messages, events, agent, node,
      state, pending, failure, llm_calls, llm_input, model_steps, tool_steps,
      executed, streamed>>

(***************************************************************************)
(* Event records.  The field `id` of a tool_call or tool_result record is  *)
(* not part of the JSON line: it names the tool call the record is about.  *)
(***************************************************************************)
StatusEvent(c) == [type |-> "status", content |-> c]

ToolCallEvent(tc) ==
    [type |-> "tool_call", tool |-> tc.name, args |-> tc.args, id |-> tc.id]

\* latest_result["result"][:500]
Truncate(text) ==
    IF Len(text) <= DisplayLimit THEN text ELSE SubSeq(text, 1, DisplayLimit)

ToolResultEvent(r, callId) ==
    [type |-> "tool_result", tool |-> r.tool, result |-> Truncate(r.result),
     id |-> callId]

MessageEvent(c) == [type |-> "message", content |-> c]

DoneEvent == [type |-> "done", complete |-> TRUE]

ErrorEvent(e) == [type |-> "error", content |-> "Agent error: " \o e]

(***************************************************************************)
(* agent_stream_generator: conversion and mode selection.                  *)
(***************************************************************************)
\* msg["role"] is read of every dict, msg["content"] of the user dicts
Convertible(msgs) ==
    \A i \in 1..Len(msgs) :
        /\ "role" \in DOMAIN msgs[i]
        /\ msgs[i].role = "user" => "content" \in DOMAIN msgs[i]

\* the key whose lookup raises KeyError first
MissingKey(msgs) ==
    LET bad == {i \in 1..Len(msgs) :
                    \/ "role" \notin DOMAIN msgs[i]
                    \/ (msgs[i].role = "user" /\ "content" \notin DOMAIN msgs[i])}
        first == CHOOSE i \in bad : \A j \in bad : i <= j
    IN  IF "role" \notin DOMAIN msgs[first] THEN "'role'" ELSE "'content'"

IsUser(msg) == msg.role = "user"

\* [HumanMessage(content=msg["content"]) for msg in messages if msg["role"] == "user"]
ConvertMessages(msgs) ==
    LET users == SelectSeq(msgs, IsUser)
    IN  [i \in 1..Len(users) |-> HumanMessage(users[i].content)]

UseAgentOnlyAuto(choice, enabled) == choice = "auto" /\ enabled

UseAgentIgnoringFlag(choice, enabled) == choice # "none"

\* use_agent = tool_choice != "none" and ENABLE_AGENT_MODE
UseAgent(choice, enabled) == choice # "none" /\ enabled

OnExceptionSilently(evts, e) == evts

OnExceptionTwice(evts, e) == Append(Append(evts, ErrorEvent(e)), ErrorEvent(e))

OnExceptionThenDone(evts, e) == Append(Append(evts, ErrorEvent(e)), DoneEvent)

\* except Exception as e: yield the error record
OnException(evts, e) == Append(evts, ErrorEvent(e))

(***************************************************************************)
(* graph.py: the agent workflow.                                           *)
(***************************************************************************)
AlwaysToolGraph(tools) == "agent"

\* create_agent_graph: `if not tools: return create_simple_graph(llm)`
create_agent_graph(tools) == IF tools = {} THEN "simple" ELSE "agent"

add_messages_overwriting(left, right) == right

\* the add_messages reducer of AgentState.messages (fresh messages: appended)
add_messages(left, right) == left \o right

count_left_unchanged(st) == st.iteration_count

\* call_model: iteration_count = state.get("iteration_count", 0) + 1
incremented_count(st) == st.iteration_count + 1

HasSystemMessage(msgs) == \E i \in 1..Len(msgs) : msgs[i].type = "system"

ModelInputWithoutPrompt(msgs) == msgs

\* call_model: "Add system prompt if not present"
ModelInput(msgs) ==
    IF ~HasSystemMessage(msgs)
    THEN <<SystemMessage(get_system_prompt)>> \o msgs
    ELSE msgs

should_continue_without_cap(st) ==
    IF Last(st.messages).type = "ai" /\ Last(st.messages).tool_calls # <<>>
    THEN "tools"
    ELSE "end"

should_continue_past_cap(st) ==
    IF st.iteration_count > MAX_ITERATIONS THEN "end"
    ELSE IF Last(st.messages).type = "ai" /\ Last(st.messages).tool_calls # <<>>
         THEN "tools"
         ELSE "end"

should_continue_by_cap_only(st) ==
    IF st.iteration_count >= MAX_ITERATIONS THEN "end" ELSE "tools"

should_continue_capped_when_positive(st) ==
    IF MAX_ITERATIONS >= 1 /\ st.iteration_count >= MAX_ITERATIONS THEN "end"
    ELSE IF Last(st.messages).type = "ai" /\ Last(st.messages).tool_calls # <<>>
         THEN "tools"
         ELSE "end"

\* should_continue: the conditional edge after the agent node
should_continue(st) ==
    IF st.iteration_count >= MAX_ITERATIONS THEN "end"
    ELSE IF Last(st.messages).type = "ai" /\ Last(st.messages).tool_calls # <<>>
         THEN "tools"
         ELSE "end"

\* tools_by_name[call["name"]].invoke(call["args"])
CallTool(call) ==
    CASE call.name = "calculator" -> Returned(calculator(call.args))
      [] call.name = "text_analyzer" -> text_analyzer(call.args)
      [] OTHER -> Returned("")

InvokeToolUnknownAsEmpty(call) ==
    IF call.name \notin AllTools THEN ""
    ELSE IF CallTool(call).raised
         THEN "Error: " \o Repr(CallTool(call)) \o "\n Please fix your mistakes."
         ELSE CallTool(call).text

\* The content of the ToolMessage the ToolNode makes for one call: the text
\* the tool returns; for a name that is not among its tools, the message
\* about an invalid tool; for a tool that raised, when the ToolNode handles
\* tool errors, the message about the exception.
InvokeTool(call) ==
    IF call.name \notin AllTools
    THEN "Error: " \o call.name \o " is not a valid tool, try one of ["
         \o AvailableTools \o "]."
    ELSE IF CallTool(call).raised
         THEN "Error: " \o Repr(CallTool(call)) \o "\n Please fix your mistakes."
         ELSE CallTool(call).text

\* the calls of a message whose tool function raises
RaisingCalls(last_message) ==
    {i \in 1..Len(last_message.tool_calls) :
        /\ last_message.tool_calls[i].name \in AllTools
        /\ CallTool(last_message.tool_calls[i]).raised}

ToolNodeInvokeReversed(last_message) ==
    LET n == Len(last_message.tool_calls)
    IN  [i \in 1..n |->
            ToolMessage(InvokeTool(last_message.tool_calls[n + 1 - i]),
                        last_message.tool_calls[n + 1 - i].name,
                        last_message.tool_calls[n + 1 - i].id)]

ToolNodeInvokeFirstId(last_message) ==
    [i \in 1..Len(last_message.tool_calls) |->
        ToolMessage(InvokeTool(last_message.tool_calls[i]),
                    last_message.tool_calls[i].name,
                    last_message.tool_calls[1].id)]

\* tool_node.invoke({"messages": [last_message]})["messages"]
ToolNodeInvoke(last_message) ==
    [i \in 1..Len(last_message.tool_calls) |->
        ToolMessage(InvokeTool(last_message.tool_calls[i]),
                    last_message.tool_calls[i].name,
                    last_message.tool_calls[i].id)]

ToolResultsTruncated(tool_outputs) ==
    [i \in 1..Len(tool_outputs) |->
        [tool |-> tool_outputs[i].name,
         result |-> Truncate(tool_outputs[i].content)]]

\* the entries execute_tools appends to tool_results
ToolResults(tool_outputs) ==
    [i \in 1..Len(tool_outputs) |->
        [tool |-> tool_outputs[i].name, result |-> tool_outputs[i].content]]

Running == pc \in {"direct", "astream", "invoke"}

\* The cancellation of a disconnected client's stream reaches the generator
\* where it is suspended: at a yield, or at an await of the astream loop.
\* final_state = agent.invoke(initial_state) is a blocking call without a
\* suspension point, and the yield of the message record follows it at once.
Delivered ==
    cancelled /\ pc \in {"start", "create_graph", "simple_llm", "astream", "emit_done"}

Run == IF pc = "invoke" THEN 2 ELSE 1

\* An exception leaves the graph; in the generator the except clause yields
\* the error record and the generator returns.
Raise(e) ==
    /\ node' = "raised"
    /\ failure' = e
    /\ IF pc = "direct"
       THEN UNCHANGED <<events, pc>>
       ELSE /\ events' = OnException(events, e)
            /\ pc' = "finished"
    /\ UNCHANGED <<state, pending>>

\* what astream yields after a node has run, {node_name: node_output}
Chunk(name, out_messages, out_results) ==
    IF pc = "astream"
    THEN [node |-> name, messages |-> out_messages, tool_results |-> out_results]
    ELSE NoChunk

\* the agent node of the tool-aware graph, followed by its conditional edge
call_model ==
    /\ Running /\ ~Delivered /\ agent = "agent" /\ node = "agent" /\ pending = NoChunk
    /\ llm_input' = [bound |-> TRUE, messages |-> ModelInput(state.messages)]
    /\ llm_calls' = llm_calls + 1
    /\ model_steps' = model_steps + 1
    /\ \/ \E e \in ModelFailures : Raise(e)
       \/ \E response \in LlmInvoke(TRUE, state.iteration_count + 1) :
            LET new == [messages |-> add_messages(state.messages, <<response>>),
                        tool_results |-> state.tool_results,
                        iteration_count |-> incremented_count(state)]
            IN  /\ state' = new
                /\ node' = IF should_continue(new) = "tools" THEN "tools" ELSE "END"
                /\ pending' = Chunk("agent", <<response>>, new.tool_results)
                /\ UNCHANGED <<events, pc, failure>>
    /\ UNCHANGED <<config, outside, streamed, lc_messages, agent, tool_steps, executed>>

\* the only node of create_simple_graph, followed by its edge to END
simple_call_model ==
    /\ Running /\ ~Delivered /\ agent = "simple" /\ node = "agent" /\ pending = NoChunk
    /\ llm_input' = [bound |-> FALSE, messages |-> ModelInput(state.messages)]
    /\ llm_calls' = llm_calls + 1
    /\ model_steps' = model_steps + 1
    /\ \/ \E e \in ModelFailures : Raise(e)
       \/ \E response \in LlmInvoke(FALSE, state.iteration_count + 1) :
            LET new == [messages |-> add_messages(state.messages, <<response>>),
                        tool_results |-> state.tool_results,
                        iteration_count |-> incremented_count(state)]
            IN  /\ state' = new
                /\ node' = "END"
                /\ pending' = Chunk("agent", <<response>>, new.tool_results)
                /\ UNCHANGED <<events, pc, failure>>
    /\ UNCHANGED <<config, outside, streamed, lc_messages, agent, tool_steps, executed>>

after_tools_end_on_error(tool_outputs) ==
    IF \E i \in 1..Len(tool_outputs) : IsErrorResult(tool_outputs[i].content)
    THEN "END"
    ELSE "agent"

after_tools_to_end(tool_outputs) == "END"

\* workflow.add_edge("tools", "agent")
after_tools(tool_outputs) == "agent"

\* The tools node, followed by its edge back to the agent node.  When a tool
\* function raises, the ToolNode either turns the exception into the content
\* of the call's ToolMessage or lets it propagate, depending on the error
\* handling the installed library gives a ToolNode built without
\* handle_tool_errors; the exception then leaves the graph.
execute_tools ==
    /\ Running /\ ~Delivered /\ agent = "agent" /\ node = "tools" /\ pending = NoChunk
    /\ \A i \in 1..Len(workers) : workers[i] = "done"
    /\ tool_steps' = tool_steps + 1
    /\ LET last_message == Last(state.messages)
           tool_outputs == ToolNodeInvoke(last_message)
           tool_results == state.tool_results \o ToolResults(tool_outputs)
           raising == RaisingCalls(last_message)
       IN  \/ /\ state' = [messages |-> add_messages(state.messages, tool_outputs),
                           tool_results |-> tool_results,
                           iteration_count |-> state.iteration_count]
              /\ pending' = Chunk("tools", tool_outputs, tool_results)
              /\ executed' = executed \o
                   [i \in 1..Len(tool_outputs) |->
                       [run |-> Run, id |-> tool_outputs[i].tool_call_id]]
              /\ node' = after_tools(tool_outputs)
              /\ UNCHANGED <<pc, events, failure>>
           \/ /\ raising # {}
              /\ LET first == CHOOSE i \in raising : \A j \in raising : i <= j
                 IN  Raise(CallTool(last_message.tool_calls[first]).text)
              /\ UNCHANGED executed
    /\ UNCHANGED <<config, outside, streamed, lc_messages, agent, llm_calls, llm_input, model_steps>>

GraphNext == call_model \/ simple_call_model \/ execute_tools

(***************************************************************************)
(* streaming.py: agent_stream_generator.                                   *)
(***************************************************************************)
\* the ways create_agent_graph may raise while the graph is built
BuildFailures == {"graph construction failed"}

\* the body of `async for event in agent.astream(initial_state)`
ChunkEvents(chunk) ==
    IF chunk.node = "agent"
    THEN IF chunk.messages # <<>>
         THEN LET last_msg == Last(chunk.messages)
              IN  [i \in 1..Len(last_msg.tool_calls) |->
                      ToolCallEvent(last_msg.tool_calls[i])]
         ELSE <<>>
    ELSE IF chunk.node = "tools"
         THEN IF chunk.tool_results # <<>>
              THEN <<ToolResultEvent(Last(chunk.tool_results),
                                     Last(chunk.messages).tool_call_id)>>
              ELSE <<>>
         ELSE <<>>

NoMessageEvents(final_messages) == <<>>

\* `if final_messages:` ... yield the message record
FinalMessageEvents(final_messages) ==
    IF final_messages # <<>>
    THEN <<MessageEvent(Last(final_messages).content)>>
    ELSE <<>>

initial_state_sharing_results(lc) ==
    [messages |-> lc, tool_results |-> parked.state.tool_results,
     iteration_count |-> 0]

\* initial_state = {"messages": lc_messages, "tool_results": [], ...}
initial_state(lc) ==
    [messages |-> lc, tool_results |-> <<>>, iteration_count |-> 0]

\* from the call to the first yield: conversion, mode selection, status, for
\* a call whose tool_choice argument is choice
BeginWith(choice) ==
    /\ pc = "start" /\ ~Delivered
    /\ IF ~Convertible(messages)
       THEN /\ events' = OnException(events, MissingKey(messages))
            /\ failure' = "KeyError"
            /\ pc' = "finished"
            /\ UNCHANGED lc_messages
       ELSE /\ lc_messages' = ConvertMessages(messages)
            /\ UNCHANGED failure
            /\ IF UseAgent(choice, ENABLE_AGENT_MODE)
               THEN /\ events' = Append(events, StatusEvent("Agent mode activated"))
                    /\ pc' = "create_graph"
               ELSE /\ events' = Append(events, StatusEvent("Simple chat mode"))
                    /\ pc' = "simple_llm"
    /\ UNCHANGED <<config, outside, streamed, agent, node, state, pending, llm_calls, llm_input,
                   model_steps, tool_steps, executed>>

\* agent_stream_generator(messages, model_name, tool_choice) starts
Begin == BeginWith(tool_choice)

\* agent = create_agent_graph(model_name); initial_state = {...}; astream starts
CreateGraph ==
    /\ pc = "create_graph" /\ ~Delivered
    /\ \/ /\ agent' = create_agent_graph(registry)
          /\ state' = initial_state(lc_messages)
          /\ node' = "agent"
          /\ pc' = "astream"
          /\ UNCHANGED <<events, failure>>
       \/ \E e \in BuildFailures :
            /\ events' = OnException(events, e)
            /\ failure' = e
            /\ pc' = "finished"
            /\ UNCHANGED <<agent, state, node>>
    /\ UNCHANGED <<config, outside, streamed, lc_messages, pending, llm_calls, llm_input,
                   model_steps, tool_steps, executed>>

\* one iteration of the astream loop: the records of one chunk are yielded
StreamEvent ==
    /\ pc = "astream" /\ ~Delivered /\ pending # NoChunk
    /\ events' = events \o ChunkEvents(pending)
    /\ pending' = NoChunk
    /\ UNCHANGED <<config, outside, streamed, pc, lc_messages, agent, node, state, failure,
                   llm_calls, llm_input, model_steps, tool_steps, executed>>

\* astream is exhausted: final_state = agent.invoke(initial_state) starts a
\* second execution of the graph.  execute_tools appended to the list object
\* of initial_state["tool_results"], so the second run starts with it.
InvokeFinal ==
    /\ pc = "astream" /\ ~Delivered /\ node = "END" /\ pending = NoChunk
    /\ pc' = "invoke"
    /\ node' = "agent"
    /\ state' = [messages |-> lc_messages, tool_results |-> state.tool_results,
                 iteration_count |-> 0]
    /\ model_steps' = 0
    /\ tool_steps' = 0
    /\ streamed' = <<Last(state.messages)>>
    /\ UNCHANGED <<config, outside, lc_messages, events, agent, pending, failure,
                   llm_calls, llm_input, executed>>

\* agent.invoke has returned: the message record is yielded
FinalMessage ==
    /\ pc = "invoke" /\ node = "END"
    /\ events' = events \o FinalMessageEvents(state.messages)
    /\ pc' = "emit_done"
    /\ UNCHANGED <<config, outside, streamed, lc_messages, agent, node, state, pending, failure,
                   llm_calls, llm_input, model_steps, tool_steps, executed>>

SimpleInputWithPrompt(lc) == <<SystemMessage(get_system_prompt)>> \o lc

\* what the simple path hands to the model: llm.invoke(lc_messages)
SimpleInput(lc) == lc

\* simple mode: llm = create_simple_llm(...); response = llm.invoke(lc_messages)
SimpleLLM ==
    /\ pc = "simple_llm" /\ ~Delivered
    /\ llm_input' = [bound |-> FALSE, messages |-> SimpleInput(lc_messages)]
    /\ llm_calls' = llm_calls + 1
    /\ \/ \E e \in ModelFailures :
            /\ events' = OnException(events, e)
            /\ failure' = e
            /\ pc' = "finished"
       \/ \E response \in LlmInvoke(FALSE, 1) :
            /\ events' = Append(events, MessageEvent(response.content))
            /\ pc' = "emit_done"
            /\ UNCHANGED failure
    /\ UNCHANGED <<config, outside, streamed, lc_messages, agent, node, state, pending,
                   model_steps, tool_steps, executed>>

\* yield the done record
Done ==
    /\ pc = "emit_done" /\ ~Delivered
    /\ events' = Append(events, DoneEvent)
    /\ pc' = "finished"
    /\ UNCHANGED <<config, outside, streamed, lc_messages, agent, node, state, pending, failure,
                   llm_calls, llm_input, model_steps, tool_steps, executed>>

\* the client goes away while its request is being served
Disconnect ==
    /\ ~cancelled
    /\ pc \notin {"finished", "closed"}
    /\ cancelled' = TRUE
    /\ UNCHANGED <<config, current, parked, passthrough, tool_run, pc, streamed,
                   lc_messages, events, agent, node, state, pending, failure,
                   llm_calls, llm_input, model_steps, tool_steps, executed>>

\* The cancellation is raised in the suspended generator: CancelledError and
\* GeneratorExit are not Exceptions, the except clause does not see them, and
\* the generator is closed without another record.
Close ==
    /\ Delivered
    /\ pc' = "closed"
    /\ UNCHANGED <<config, outside, streamed, lc_messages, events, agent, node, state,
                   pending, failure, llm_calls, llm_input, model_steps,
                   tool_steps, executed>>

(***************************************************************************)
(* Specifications.                                                         *)
(***************************************************************************)
Init ==
    /\ MAX_ITERATIONS \in CapValues
    /\ ENABLE_AGENT_MODE \in BOOLEAN
    /\ registry \in Registries
    /\ messages \in Requests
    /\ tool_choice \in ToolChoices
    /\ pc = "start"
    /\ lc_messages = <<>>
    /\ events = <<>>
    /\ agent = "none"
    /\ node = "idle"
    /\ state = EmptyState
    /\ pending = NoChunk
    /\ failure = "none"
    /\ llm_calls = 0
    /\ llm_input = NoInput
    /\ model_steps = 0
    /\ tool_steps = 0
    /\ executed = <<>>
    /\ streamed = <<>>
    /\ cancelled = FALSE
    /\ current = 0
    /\ parked = NoRequest
    /\ NoPassthrough
    /\ NoToolRun

Next ==
    \/ Begin
    \/ CreateGraph
    \/ call_model
    \/ simple_call_model
    \/ execute_tools
    \/ StreamEvent
    \/ InvokeFinal
    \/ FinalMessage
    \/ SimpleLLM
    \/ Done

Spec == Init /\ [][Next]_vars

\* a request whose client may disconnect at any moment
CancelNext == Next \/ Disconnect \/ Close

CancelSpec == Init /\ [][CancelNext]_vars

\* The event loop turns from the request it was serving to the other one:
\* each call of the generator finds its own arguments, locals, graph and
\* state as it left them; the module-level configuration is the same for both.
Switch ==
    /\ current \in {1, 2}
    /\ parked.pc # "finished"
    /\ current' = 3 - current
    /\ parked' = Locals
    /\ messages' = parked.messages
    /\ tool_choice' = parked.tool_choice
    /\ pc' = parked.pc
    /\ lc_messages' = parked.lc_messages
    /\ events' = parked.events
    /\ agent' = parked.agent
    /\ node' = parked.node
    /\ state' = parked.state
    /\ pending' = parked.pending
    /\ failure' = parked.failure
    /\ llm_calls' = parked.llm_calls
    /\ llm_input' = parked.llm_input
    /\ model_steps' = parked.model_steps
    /\ tool_steps' = parked.tool_steps
    /\ executed' = parked.executed
    /\ streamed' = parked.streamed
    /\ cancelled' = parked.cancelled
    /\ UNCHANGED <<MAX_ITERATIONS, ENABLE_AGENT_MODE, registry, passthrough,
                   tool_run>>

\* the requests two concurrent clients send
PairRequests ==
    { <<[role |-> "user", content |-> "What is 2+2?"]>>,
      <<[role |-> "user", content |-> "Hi"],
        [role |-> "user", content |-> "And 1/0?"]>> }

\* two /api/agent/chat requests in one server process
PairInit ==
    /\ MAX_ITERATIONS = DefaultMaxIterations
    /\ ENABLE_AGENT_MODE = TRUE
    /\ registry \in Registries
    /\ messages \in PairRequests
    /\ tool_choice \in {"auto", "none"}
    /\ pc = "start"
    /\ lc_messages = <<>>
    /\ events = <<>>
    /\ agent = "none"
    /\ node = "idle"
    /\ state = EmptyState
    /\ pending = NoChunk
    /\ failure = "none"
    /\ llm_calls = 0
    /\ llm_input = NoInput
    /\ model_steps = 0
    /\ tool_steps = 0
    /\ executed = <<>>
    /\ streamed = <<>>
    /\ cancelled = FALSE
    /\ current = 1
    /\ \E msgs \in PairRequests, choice \in {"auto", "none"} :
         parked = NewRequest(msgs, choice)
    /\ NoPassthrough
    /\ NoToolRun

PairNext == Next \/ Switch

PairSpec == PairInit /\ [][PairNext]_vars

(***************************************************************************)
(* streaming.py: ollama_stream_generator, the passthrough of /api/chat.    *)
(***************************************************************************)
\* config.py: f"{OLLAMA_HOST}:{OLLAMA_PORT}/api/chat" with the defaults
OLLAMA_API_BASE == "http://localhost:11434/api/chat"

\* what response.aiter_lines() may yield: a line without its line ending
BackendLines ==
    {"", "{\"message\":{\"content\":\"Hi\"},\"done\":false}", "{\"done\":true}"}

LineLists == UNION {[1..n -> BackendLines] : n \in 0..MaxLines}

\* The backend refuses the connection, answers with an error status, or
\* sends lines and then either ends the response or breaks off.
Backends ==
    {[fault |-> f, lines |-> <<>>] : f \in {"ConnectError", "HTTPStatusError"}}
    \cup {[fault |-> f, lines |-> l] :
            f \in {"none", "RemoteProtocolError"}, l \in LineLists}

\* error_msg of the three except clauses
ErrorMessage(fault) ==
    CASE fault = "ConnectError" ->
            "Error: Could not connect to Ollama at " \o OLLAMA_API_BASE
      [] fault = "HTTPStatusError" -> "Error: HTTP 500"
      [] OTHER ->
            "An unexpected error occurred: "
            \o "peer closed connection without sending complete message body"

\* json.dumps({"error": error_msg}) + "\n"
ErrorLine(error_msg) == "{\"error\": \"" \o error_msg \o "\"}" \o "\n"

OnStreamErrorFirst(out, fault) == <<ErrorLine(ErrorMessage(fault))>> \o out

OnStreamErrorSilently(out, fault) == out

\* except ...: yield the error line
OnStreamError(out, fault) == Append(out, ErrorLine(ErrorMessage(fault)))

ForwardChunkKeepingEmpty(chunk) == <<chunk \o "\n">>

\* if chunk: yield f"{chunk}\n"
ForwardChunk(chunk) == IF chunk # "" THEN <<chunk \o "\n">> ELSE <<>>

\* client.stream("POST", ...) and response.raise_for_status()
OpenStream ==
    /\ ppc = "open"
    /\ IF backend.fault \in {"ConnectError", "HTTPStatusError"}
       THEN /\ output' = OnStreamError(output, backend.fault)
            /\ ppc' = "closed"
       ELSE /\ ppc' = "lines"
            /\ UNCHANGED output
    /\ UNCHANGED <<agent_run, tool_run, backend, received>>

\* one iteration of `async for chunk in response.aiter_lines()`
ForwardLine ==
    /\ ppc = "lines"
    /\ received < Len(backend.lines)
    /\ received' = received + 1
    /\ output' = output \o ForwardChunk(backend.lines[received + 1])
    /\ UNCHANGED <<agent_run, tool_run, backend, ppc>>

\* aiter_lines() is exhausted, or it raises because the response broke off
EndOfLines ==
    /\ ppc = "lines"
    /\ received = Len(backend.lines)
    /\ ppc' = "closed"
    /\ IF backend.fault = "none"
       THEN UNCHANGED output
       ELSE output' = OnStreamError(output, backend.fault)
    /\ UNCHANGED <<agent_run, tool_run, backend, received>>

PassInit ==
    /\ NoAgentRun
    /\ NoToolRun
    /\ ppc = "open"
    /\ backend \in Backends
    /\ received = 0
    /\ output = <<>>

PassNext == OpenStream \/ ForwardLine \/ EndOfLines

PassSpec == PassInit /\ [][PassNext]_vars

(***************************************************************************)
(* tools.py: a tool function called directly, as tests/test_agent_tools.py *)
(* does.                                                                   *)
(***************************************************************************)
RunTool ==
    /\ tool_call # NoCall
    /\ tool_outcome = NoOutcome
    /\ tool_outcome' = CallTool(tool_call)
    /\ evaluated' = IF tool_call.name = "calculator"
                    THEN CalculatorRun(tool_call.args).evaluated
                    ELSE <<>>
    /\ UNCHANGED <<agent_run, passthrough, tool_call, codec_text, codec_results,
                   workers>>

ToolInit ==
    /\ NoAgentRun
    /\ NoPassthrough
    /\ tool_call \in ToolInputs
    /\ tool_outcome = NoOutcome
    /\ evaluated = <<>>
    /\ codec_text = <<>>
    /\ codec_results = <<>>
    /\ workers = <<>>

ToolNext == RunTool

ToolSpec == ToolInit /\ [][ToolNext]_vars

(***************************************************************************)
(* encode_decode_text called directly: a text is encoded and the payload   *)
(* of the result decoded, as test_encode_decode_text_round_trip does, or   *)
(* the text itself is decoded.                                             *)
(***************************************************************************)
Called(operation, result) ==
    [operation |-> operation, prefix |-> result.prefix, body |-> result.body]

\* encoded = encode_decode_text(text, operation="base64_encode")
EncodeText ==
    /\ codec_results = <<>>
    /\ codec_results' = <<Called("base64_encode", base64_encode(codec_text))>>
    /\ UNCHANGED <<agent_run, passthrough, tool_call, tool_outcome, evaluated,
                   codec_text, workers>>

\* decoded = encode_decode_text(payload, operation="base64_decode")
DecodePayload ==
    /\ Len(codec_results) = 1
    /\ codec_results[1].prefix = "Base64 encoded: "
    /\ codec_results' =
          Append(codec_results,
                 Called("base64_decode", base64_decode(codec_results[1].body)))
    /\ UNCHANGED <<agent_run, passthrough, tool_call, tool_outcome, evaluated,
                   codec_text, workers>>

\* encode_decode_text(text, operation="base64_decode")
DecodeText ==
    /\ codec_results = <<>>
    /\ codec_results' = <<Called("base64_decode", base64_decode(codec_text))>>
    /\ UNCHANGED <<agent_run, passthrough, tool_call, tool_outcome, evaluated,
                   codec_text, workers>>

CodecInit ==
    /\ NoAgentRun
    /\ NoPassthrough
    /\ tool_call = NoCall
    /\ tool_outcome = NoOutcome
    /\ evaluated = <<>>
    /\ codec_text \in Texts
    /\ codec_results = <<>>
    /\ workers = <<>>

CodecNext == EncodeText \/ DecodePayload \/ DecodeText

CodecSpec == CodecInit /\ [][CodecNext]_vars

\* workflow = create_agent_graph(...); workflow.invoke(state)
GraphInit ==
    /\ MAX_ITERATIONS \in CapValues
    /\ ENABLE_AGENT_MODE = TRUE
    /\ registry \in Registries
    /\ messages = <<>>
    /\ tool_choice = "auto"
    /\ pc = "direct"
    /\ lc_messages = <<>>
    /\ events = <<>>
    /\ agent = create_agent_graph(registry)
    /\ node = "agent"
    /\ \E m \in DirectInputs :
         state = [messages |-> m, tool_results |-> <<>>, iteration_count |-> 0]
    /\ pending = NoChunk
    /\ failure = "none"
    /\ llm_calls = 0
    /\ llm_input = NoInput
    /\ model_steps = 0
    /\ tool_steps = 0
    /\ executed = <<>>
    /\ streamed = <<>>
    /\ cancelled = FALSE
    /\ current = 0
    /\ parked = NoRequest
    /\ NoPassthrough
    /\ NoToolRun

GraphSpec == GraphInit /\ [][GraphNext]_vars

(***************************************************************************)
(* The tool step, call by call.  tool_node.invoke hands the tool calls of  *)
(* the message to the ToolNode, which runs them with the executor of the   *)
(* run's config (executor.map over the calls): the calls are submitted in  *)
(* request order to a pool of threads, each call runs on a thread of its   *)
(* own, and the outputs are collected in request order once all calls have *)
(* returned.                                                               *)
(***************************************************************************)
WorkerCalls ==
    {[name |-> "calculator", args |-> "2+2"],
     [name |-> "calculator", args |-> "1/0"],
     [name |-> "web_search", args |-> "weather"]}

WorkerCallLists == UNION {[1..n -> WorkerCalls] : n \in 1..MaxThreads}

\* a thread of the pool takes the next submitted call and begins to run it
StartTool ==
    /\ node = "tools"
    /\ \E i \in 1..Len(workers) :
          /\ workers[i] = "queued"
          /\ \A j \in 1..(i - 1) : workers[j] # "queued"
          /\ workers' = [workers EXCEPT ![i] = "running"]
    /\ UNCHANGED <<agent_run, passthrough, tool_call, tool_outcome, evaluated,
                   codec_text, codec_results>>

\* the tool function of a running call returns
FinishTool ==
    /\ node = "tools"
    /\ \E i \in 1..Len(workers) :
          /\ workers[i] = "running"
          /\ workers' = [workers EXCEPT ![i] = "done"]
    /\ UNCHANGED <<agent_run, passthrough, tool_call, tool_outcome, evaluated,
                   codec_text, codec_results>>

\* the graph stands before its tool step, after the first model response
ToolNodeInit ==
    /\ MAX_ITERATIONS = DefaultMaxIterations
    /\ ENABLE_AGENT_MODE = TRUE
    /\ registry = AllTools
    /\ messages = <<>>
    /\ tool_choice = "auto"
    /\ pc = "direct"
    /\ lc_messages = <<>>
    /\ events = <<>>
    /\ agent = "agent"
    /\ node = "tools"
    /\ \E requests \in WorkerCallLists :
         /\ state = [messages |-> <<HumanMessage("Compute 2+2"),
                                    AIMessage("", ToolCalls(1, requests))>>,
                     tool_results |-> <<>>, iteration_count |-> 1]
         /\ workers = [i \in 1..Len(requests) |-> "queued"]
    /\ pending = NoChunk
    /\ failure = "none"
    /\ llm_calls = 1
    /\ llm_input = [bound |-> TRUE,
                    messages |-> ModelInput(<<HumanMessage("Compute 2+2")>>)]
    /\ model_steps = 1
    /\ tool_steps = 0
    /\ executed = <<>>
    /\ streamed = <<>>
    /\ cancelled = FALSE
    /\ current = 0
    /\ parked = NoRequest
    /\ NoPassthrough
    /\ tool_call = NoCall
    /\ tool_outcome = NoOutcome
    /\ evaluated = <<>>
    /\ codec_text = <<>>
    /\ codec_results = <<>>

ToolNodeNext == StartTool \/ FinishTool \/ execute_tools

ToolNodeSpec == ToolNodeInit /\ [][ToolNodeNext]_vars

\* the graph runtime keeps executing the next node until END or an exception
FairGraphSpec == GraphSpec /\ WF_vars(GraphNext)

(***************************************************************************)
(* Vocabulary of the properties.                                           *)
(***************************************************************************)
EventTypes == [i \in 1..Len(events) |-> events[i].type]

EventIndexes(type) == {i \in 1..Len(events) : events[i].type = type}

Count(type) == Cardinality(EventIndexes(type))

IsToolEvent(e) == e.type \in {"tool_call", "tool_result"}

\* the model turn a tool_call or tool_result record belongs to
Turn(e) == e.id[1]

Finished == pc = "finished"

EndedWithoutError == pc = "finished" /\ failure = "none"

ModelFailed == failure \in ModelFailures

GraphTerminated == node \in {"END", "raised"}

Range(s) == {s[i] : i \in 1..Len(s)}

\* the tool call of that id among the assistant messages
CallById(msgs, id) ==
    CHOOSE c \in UNION {Range(msgs[k].tool_calls) : k \in 1..Len(msgs)} : c.id = id

\* the message class of a chat role
RoleType(role) ==
    CASE role = "user" -> "human"
      [] role = "assistant" -> "ai"
      [] OTHER -> role

ExecutedInRun(r) == {executed[i].id : i \in {j \in 1..Len(executed) : executed[j].run = r}}

(***************************************************************************)
(* C1: with the default cap MAX_ITERATIONS = 2, the iteration_count of a   *)
(* graph run started at 0 never exceeds 2, in the final state in           *)
(* particular, whatever the model responds.                                *)
(***************************************************************************)
C1_IterationCountWithinDefaultCap ==
    MAX_ITERATIONS = DefaultMaxIterations =>
        /\ state.iteration_count <= DefaultMaxIterations
        /\ node = "END" => state.iteration_count \in 1..DefaultMaxIterations

\* the model asked for tools in both responses and the run ended at the cap
C1_Witness ==
    /\ MAX_ITERATIONS = DefaultMaxIterations
    /\ agent = "agent"
    /\ node = "END"
    /\ state.iteration_count = DefaultMaxIterations
    /\ Last(state.messages).tool_calls # <<>>
    /\ tool_steps = 1

(***************************************************************************)
(* C2: every run of the tool-aware graph terminates: with a cap N >= 1 it  *)
(* never makes more than N model steps nor more than N - 1 tool steps, no  *)
(* node executes once END is reached, and the run eventually ends (at END, *)
(* or by the exception of a failing model call, which aborts it).          *)
(***************************************************************************)
C2_GraphRunTerminates ==
    /\ []((agent = "agent" /\ MAX_ITERATIONS >= 1) =>
            (model_steps <= MAX_ITERATIONS /\ tool_steps <= MAX_ITERATIONS - 1))
    /\ [][node # "END" /\ node # "raised"]_vars
    /\ (agent = "agent" => <>GraphTerminated)

\* a run that used the whole cap, with a tool that returned an error result
C2_Witness ==
    /\ agent = "agent"
    /\ node = "END"
    /\ MAX_ITERATIONS = MaxCap
    /\ model_steps = MAX_ITERATIONS
    /\ tool_steps = MAX_ITERATIONS - 1
    /\ Last(state.messages).tool_calls # <<>>
    /\ \E i \in 1..Len(state.tool_results) :
         state.tool_results[i].result = "Error: Division by zero"

(***************************************************************************)
(* C3: serving one agent-mode request, the model is invoked at most        *)
(* MAX_ITERATIONS times in total.                                          *)
(***************************************************************************)
C3_ModelCallsWithinCap ==
    (agent # "none" /\ MAX_ITERATIONS >= 1) => llm_calls <= MAX_ITERATIONS

(***************************************************************************)
(* C4: a run that ends without an error has emitted one status record      *)
(* first, then only tool_call and tool_result records in model-turn order  *)
(* (within a turn the calls before the results), then one message record   *)
(* and the done record last.                                               *)
(***************************************************************************)
C4_EventOrder ==
    EndedWithoutError =>
        LET n == Len(events)
        IN  /\ n >= 3
            /\ events[1].type = "status"
            /\ events[n - 1].type = "message"
            /\ events[n] = DoneEvent
            /\ Count("status") = 1 /\ Count("message") = 1 /\ Count("done") = 1
            /\ \A i \in 2..(n - 2) : IsToolEvent(events[i])
            /\ \A i, j \in 2..(n - 2) :
                 i < j =>
                    /\ Turn(events[i]) <= Turn(events[j])
                    /\ Turn(events[i]) = Turn(events[j]) =>
                         ~(events[i].type = "tool_result" /\ events[j].type = "tool_call")

\* a finished run that streamed a tool call and its result
C4_Witness ==
    /\ EndedWithoutError
    /\ Count("tool_call") >= 1
    /\ Count("tool_result") >= 1
    /\ Len(events) >= 5

(***************************************************************************)
(* C5: for every model turn of an agent-mode stream the tool_call records  *)
(* are as many as the tool_result records, each tool_call record precedes  *)
(* the tool_result record of its call, and a tool_call record is emitted   *)
(* only for a call that the streamed run executes.                         *)
(***************************************************************************)
C5_ToolCallsPairedWithResults ==
    (EndedWithoutError /\ agent # "none") =>
        /\ \A t \in 1..Len(events) :
             Cardinality({i \in EventIndexes("tool_call") : Turn(events[i]) = t})
               = Cardinality({i \in EventIndexes("tool_result") : Turn(events[i]) = t})
        /\ \A i \in EventIndexes("tool_call") :
             /\ events[i].id \in ExecutedInRun(1)
             /\ \E j \in EventIndexes("tool_result") :
                  j > i /\ events[j].id = events[i].id

(***************************************************************************)
(* C6: one tool_result record is emitted for each entry that a tool step   *)
(* appends to tool_results, in order, its result being the first 500       *)
(* characters of the entry's text, while the entry and the tool message    *)
(* keep the full text.                                                     *)
(***************************************************************************)
C6_OneResultEventPerToolResult ==
    (pc = "astream" /\ pending = NoChunk) =>
        LET shown == SelectSeq(events, LAMBDA e : e.type = "tool_result")
            kept == state.tool_results
            toolMsgs == SelectSeq(state.messages, LAMBDA m : m.type = "tool")
        IN  /\ Len(shown) = Len(kept)
            /\ Len(toolMsgs) = Len(kept)
            /\ \A i \in 1..Len(shown) :
                 /\ shown[i].tool = kept[i].tool
                 /\ shown[i].result = Truncate(kept[i].result)
                 /\ kept[i].result = toolMsgs[i].content
                 /\ kept[i].result = InvokeTool(CallById(state.messages, toolMsgs[i].tool_call_id))

(***************************************************************************)
(* C7: once a model call has failed, the stream has ended with exactly one *)
(* error record as its last record, holds no done and no message record,   *)
(* and no further model call is made for the request.                      *)
(***************************************************************************)
C7_ModelFailureEndsStream ==
    /\ [](ModelFailed =>
            /\ Finished
            /\ Last(events).type = "error"
            /\ Count("error") = 1
            /\ Count("done") = 0
            /\ Count("message") = 0)
    /\ [][ModelFailed => llm_calls' = llm_calls /\ events' = events]_vars

\* the model failed on a later call, after a tool round had been streamed
C7_Witness ==
    /\ ModelFailed
    /\ llm_calls >= 2
    /\ Count("tool_result") >= 1
    /\ Last(events).type = "error"

(***************************************************************************)
(* C8 as stated: the stream of a failed run contains the error record and  *)
(* no status, tool_call, tool_result, message or done record.              *)
(***************************************************************************)
C8_ErrorReplacesAllEvents ==
    (Finished /\ failure # "none") =>
        /\ Count("error") >= 1
        /\ \A i \in 1..Len(events) :
             events[i].type \notin
                {"status", "tool_call", "tool_result", "message", "done"}

(***************************************************************************)
(* C8 as amended: the error record replaces the records not yet emitted.   *)
(* The stream of a failed run ends with its only error record and holds no *)
(* message and no done record; the records before it are those already     *)
(* streamed: the status record first (none when the conversion of the      *)
(* request failed), then tool_call and tool_result records.                *)
(***************************************************************************)
C8_ErrorReplacesRemainingEvents ==
    failure # "none" =>
        LET n == Len(events)
        IN  /\ Finished
            /\ n >= 1
            /\ events[n].type = "error"
            /\ \A i \in 1..(n - 1) :
                 IF i = 1 THEN events[i].type = "status" ELSE IsToolEvent(events[i])
            /\ (n = 1) <=> (failure = "KeyError")

\* a run that failed after its status and tool records had been streamed
C8_Witness ==
    /\ failure # "none"
    /\ Finished
    /\ Len(events) >= 4
    /\ events[1].type = "status"
    /\ Count("tool_call") >= 1
    /\ Last(events).type = "error"

(***************************************************************************)
(* C9: the generator takes the no-tool path exactly if tool_choice is      *)
(* "none" or agent mode is disabled.  On that path it makes one model call *)
(* with no tools bound, never builds the graph, and a run without failure  *)
(* emits exactly status("Simple chat mode"), message, done; on the other   *)
(* path the first record is status("Agent mode activated").                *)
(***************************************************************************)
C9_ModeSelection ==
    LET noTools == tool_choice = "none" \/ ~ENABLE_AGENT_MODE
        selected == pc # "start" /\ failure # "KeyError"
    IN  /\ selected =>
              /\ events[1].type = "status"
              /\ noTools =>
                    /\ events[1] = StatusEvent("Simple chat mode")
                    /\ agent = "none" /\ node = "idle" /\ state = EmptyState
                    /\ pc \in {"simple_llm", "emit_done", "finished"}
                    /\ llm_calls = (IF pc = "simple_llm" THEN 0 ELSE 1)
                    /\ llm_calls = 1 =>
                          llm_input = [bound |-> FALSE, messages |-> lc_messages]
                    /\ Count("tool_call") = 0 /\ Count("tool_result") = 0
                    /\ EndedWithoutError =>
                          /\ EventTypes = <<"status", "message", "done">>
                          /\ events[2].content \in Answers
              /\ ~noTools =>
                    /\ events[1] = StatusEvent("Agent mode activated")
                    /\ pc # "simple_llm"
        /\ ~selected => Count("status") = 0

\* tool_choice "none" with agent mode enabled and tools registered
C9_Witness ==
    /\ tool_choice = "none"
    /\ ENABLE_AGENT_MODE
    /\ registry # {}
    /\ EndedWithoutError
    /\ EventTypes = <<"status", "message", "done">>
    /\ llm_calls = 1

(***************************************************************************)
(* C10: with an empty tool registry create_agent_graph returns the simple  *)
(* graph: a run makes one model step and ends with iteration_count = 1 and *)
(* no tool step; an agent-mode request emits no tool_call record, and a    *)
(* request without failure exactly status, message, done.                  *)
(***************************************************************************)
C10_ZeroTools ==
    (registry = {} /\ agent # "none") =>
        /\ agent = "simple"
        /\ tool_steps = 0
        /\ model_steps <= 1
        /\ node = "END" =>
              /\ model_steps = 1
              /\ state.iteration_count = 1
              /\ Len(state.messages) = Len(lc_messages) + 1
              /\ Last(state.messages).type = "ai"
        /\ llm_calls >= 1 => ~llm_input.bound
        /\ Count("tool_call") = 0
        /\ Count("tool_result") = 0
        /\ EndedWithoutError => EventTypes = <<"status", "message", "done">>

\* an agent-mode request served with no tool registered
C10_Witness ==
    /\ registry = {}
    /\ agent = "simple"
    /\ tool_choice # "none"
    /\ EndedWithoutError
    /\ EventTypes = <<"status", "message", "done">>

(***************************************************************************)
(* C11: when the initial message list holds no system message, every       *)
(* request a graph sends to the model, the first and every later one,      *)
(* begins with the system prompt and holds no other system message; the    *)
(* prompt is not stored in the state, so it is never duplicated.           *)
(***************************************************************************)
C11_SingleSystemPrompt ==
    (agent # "none" /\ llm_calls >= 1 /\ ~HasSystemMessage(lc_messages)) =>
        LET request == llm_input.messages
        IN  /\ request # <<>>
            /\ request[1] = SystemMessage(get_system_prompt)
            /\ Cardinality({i \in 1..Len(request) : request[i].type = "system"}) = 1
            /\ SubSeq(request, 2, Len(lc_messages) + 1) = lc_messages
            /\ ~HasSystemMessage(state.messages)

\* the second model call of a streamed run, made after a tool step
C11_Witness ==
    /\ agent = "agent"
    /\ pc = "astream"
    /\ model_steps = 2
    /\ tool_steps = 1
    /\ Len(llm_input.messages) >= 4
    /\ \E i \in 1..Len(llm_input.messages) : llm_input.messages[i].type = "tool"
    /\ llm_input.messages[1] = SystemMessage(get_system_prompt)

(***************************************************************************)
(* C12: a model call of an agent-mode request receives the full history:   *)
(* after the system prompt, every message of the chat request, whatever    *)
(* its role, in request order, followed by the assistant and tool messages *)
(* accumulated so far in the run.                                          *)
(***************************************************************************)
C12_FullHistoryToModel ==
    (/\ pc = "astream" /\ pending # NoChunk /\ pending.node = "agent"
     /\ \A i \in 1..Len(messages) : DOMAIN messages[i] = {"role", "content"}) =>
        LET request == llm_input.messages
            history == IF request # <<>> /\ request[1] = SystemMessage(get_system_prompt)
                       THEN Tail(request)
                       ELSE request
            before == SubSeq(state.messages, 1, Len(state.messages) - 1)
            accumulated == SelectSeq(before, LAMBDA msg : msg.type \in {"ai", "tool"})
        IN  /\ Len(history) = Len(messages) + Len(accumulated)
            /\ \A i \in 1..Len(messages) :
                 /\ history[i].content = messages[i].content
                 /\ history[i].type = RoleType(messages[i].role)
            /\ SubSeq(history, Len(messages) + 1, Len(history)) = accumulated

\* the messages a step has appended to the state
Appended == SubSeq(state'.messages, Len(state.messages) + 1, Len(state'.messages))

\* a tool step that has completed
ToolStepDone == tool_steps' = tool_steps + 1 /\ node' # "raised"

C14_UnknownToolErrorText ==
    \A i \in 1..Len(state.messages) :
        (state.messages[i].type = "tool" /\ state.messages[i].name \notin AllTools) =>
            state.messages[i].content = "Error: unknown tool " \o state.messages[i].name

(***************************************************************************)
(* C14 as amended: a call that names a tool which is not registered does   *)
(* not abort the tool step.  The step appends, for that call id, the tool  *)
(* message "Error: <name> is not a valid tool, try one of [<names>]." and  *)
(* the matching tool_results entry, and hands over to the model step.      *)
(***************************************************************************)
C14_UnknownToolIsErrorResult ==
    [][(/\ node = "tools"
        /\ tool_steps' = tool_steps + 1
        /\ \E i \in 1..Len(Last(state.messages).tool_calls) :
             Last(state.messages).tool_calls[i].name \notin AllTools) =>
         LET calls == Last(state.messages).tool_calls
             text(i) == "Error: " \o calls[i].name
                        \o " is not a valid tool, try one of [" \o AvailableTools \o "]."
         IN  /\ node' = "agent"
             /\ failure' = failure /\ events' = events /\ pc' = pc
             /\ Len(Appended) = Len(calls)
             /\ Len(state'.tool_results) = Len(state.tool_results) + Len(calls)
             /\ \A i \in 1..Len(calls) :
                  calls[i].name \notin AllTools =>
                     /\ Appended[i] = ToolMessage(text(i), calls[i].name, calls[i].id)
                     /\ IsErrorResult(Appended[i].content)
                     /\ state'.tool_results[Len(state.tool_results) + i]
                          = [tool |-> calls[i].name, result |-> text(i)]]_vars

\* the model was called again after the tool message about web_search
C14_Witness ==
    /\ pc = "astream"
    /\ model_steps = 2
    /\ tool_steps = 1
    /\ \E i \in 1..Len(state.messages) :
         /\ state.messages[i].type = "tool"
         /\ state.messages[i].name = "web_search"
         /\ state.messages[i].tool_call_id = <<1, 1>>
    /\ Last(state.messages).type = "ai"

(***************************************************************************)
(* C15: once the client has disconnected, no record is emitted and no      *)
(* model call and no tool call is started.                                 *)
(***************************************************************************)
C15_NothingAfterCancellation ==
    [][cancelled =>
         /\ events' = events
         /\ llm_calls' = llm_calls
         /\ executed' = executed]_vars

\* what holds of a request whatever else the process is serving
ServedAlone(r) ==
    /\ r.lc_messages = (IF r.pc = "start" \/ r.failure = "KeyError"
                        THEN <<>> ELSE ConvertMessages(r.messages))
    /\ r.agent # "none" =>
          /\ Len(r.state.messages) >= Len(r.lc_messages)
          /\ SubSeq(r.state.messages, 1, Len(r.lc_messages)) = r.lc_messages
          /\ r.llm_calls >= 1 =>
                SubSeq(r.llm_input.messages, 1, Len(r.lc_messages) + 1)
                   = <<SystemMessage(get_system_prompt)>> \o r.lc_messages
    /\ Len(r.state.tool_results) = Len(r.executed)
    /\ \A i \in 1..Len(r.events) :
          r.events[i].type = "tool_result" =>
             \E k \in 1..Len(r.state.tool_results) :
                /\ r.events[i].tool = r.state.tool_results[k].tool
                /\ r.events[i].result = Truncate(r.state.tool_results[k].result)
    /\ (r.pc = "finished" /\ r.failure = "none" /\ r.agent = "agent") =>
          /\ r.events[1] = StatusEvent("Agent mode activated")
          /\ r.events[Len(r.events) - 1] = MessageEvent(Last(r.state.messages).content)
          /\ Last(r.events) = DoneEvent

(***************************************************************************)
(* C16: two requests served concurrently share no mutable state.  A step   *)
(* of one request leaves everything the other one owns as it was, the      *)
(* module-level configuration is never written, and the messages, the      *)
(* model input, the tool results and the records of each request are those *)
(* of its own run.                                                         *)
(***************************************************************************)
C16_ConcurrentRequestsIndependent ==
    /\ [](current # 0 => ServedAlone(Locals) /\ ServedAlone(parked))
    /\ [][/\ UNCHANGED <<MAX_ITERATIONS, ENABLE_AGENT_MODE, registry>>
          /\ current' = current => parked' = parked
          /\ current' # current => (parked' = Locals /\ Locals' = parked)]_vars

\* both requests are in the middle of their streamed runs, a tool step each
C16_Witness ==
    /\ current = 2
    /\ pc = "astream" /\ parked.pc = "astream"
    /\ tool_steps = 1 /\ parked.tool_steps = 1
    /\ messages # parked.messages
    /\ Len(state.tool_results) = 2
    /\ Len(parked.state.tool_results) = 2
    /\ Len(events) >= 4 /\ Len(parked.events) >= 4

\* the text begins with the given prefix
StartsWith(text, prefix) ==
    Len(text) >= Len(prefix) /\ SubSeq(text, 1, Len(prefix)) = prefix

NonEmptyLine(line) == line # ""

\* the backend lines read so far that are not empty, each followed by "\n"
ForwardedSoFar ==
    LET kept == SelectSeq(SubSeq(backend.lines, 1, received), NonEmptyLine)
    IN  [i \in 1..Len(kept) |-> kept[i] \o "\n"]

\* a line of the form {"error": ...}
IsErrorLine(line) == StartsWith(line, "{\"error\": ")

ErrorLinesOf(out) == {i \in 1..Len(out) : IsErrorLine(out[i])}

(***************************************************************************)
(* C17: while the backend stream runs and ends without error, the output   *)
(* of ollama_stream_generator is exactly the non-empty backend lines read  *)
(* so far, unmodified and in the order received, each followed by one      *)
(* newline; when the generator ends every backend line has been read and   *)
(* nothing else has been emitted.                                          *)
(***************************************************************************)
C17_ForwardsNonEmptyLines ==
    backend.fault = "none" =>
        /\ output = ForwardedSoFar
        /\ ppc = "closed" => received = Len(backend.lines)

\* a complete stream of MaxLines lines, one of them empty, two forwarded
C17_Witness ==
    /\ ppc = "closed"
    /\ backend.fault = "none"
    /\ Len(backend.lines) = MaxLines
    /\ \E i \in 1..MaxLines : backend.lines[i] = ""
    /\ Len(output) = MaxLines - 1
    /\ output[1] # output[2]

(***************************************************************************)
(* C18 as stated: when the backend fails, the whole output of              *)
(* ollama_stream_generator is the single error line.                       *)
(***************************************************************************)
C18_ErrorIsWholeOutput ==
    (ppc = "closed" /\ backend.fault # "none") =>
        output = <<ErrorLine(ErrorMessage(backend.fault))>>

(***************************************************************************)
(* C18: when the backend fails, the output of ollama_stream_generator      *)
(* holds exactly one error line, carrying the message of the failure, and  *)
(* it is the last line; it is the whole output when the failure comes      *)
(* before any non-empty line was forwarded (always so for a refused        *)
(* connection and for a bad HTTP status).  A stream that does not fail     *)
(* holds no error line.                                                    *)
(***************************************************************************)
C18_ErrorLineEndsOutput ==
    /\ (ppc = "closed" /\ backend.fault # "none") =>
          /\ Len(output) >= 1
          /\ Last(output) = ErrorLine(ErrorMessage(backend.fault))
          /\ ErrorLinesOf(output) = {Len(output)}
          /\ Len(output) = 1 <=>
                \A i \in 1..received : backend.lines[i] = ""
          /\ backend.fault \in {"ConnectError", "HTTPStatusError"} =>
                Len(output) = 1
    /\ (ppc # "closed" \/ backend.fault = "none") => ErrorLinesOf(output) = {}

\* the response breaks off after two lines were forwarded
C18_Witness ==
    /\ ppc = "closed"
    /\ backend.fault = "RemoteProtocolError"
    /\ Len(output) = 3
    /\ IsErrorLine(output[3])
    /\ ~IsErrorLine(output[1])

\* how the successful result of each tool begins
SuccessPrefix(name) ==
    IF name = "calculator" THEN "Result: " ELSE "# Text Analysis:"

(***************************************************************************)
(* C19 as stated: a tool called directly never raises to its caller; it    *)
(* returns a string, and a string that is not the tool's successful result *)
(* starts with "Error:".                                                   *)
(***************************************************************************)
C19_ToolsNeverRaise ==
    tool_outcome # NoOutcome =>
        /\ ~tool_outcome.raised
        /\ \/ StartsWith(tool_outcome.text, SuccessPrefix(tool_call.name))
           \/ StartsWith(tool_outcome.text, "Error:")

\* digits, whitespace, parentheses and the four operators
ClaimedChars == AllowedChars \ {"."}

(***************************************************************************)
(* C20 as stated: the calculator answers every input holding a character   *)
(* outside digits, whitespace, parentheses and + - * / with an error       *)
(* result, and evaluates nothing for it.                                   *)
(***************************************************************************)
C20_DisallowedInputRejected ==
    (/\ tool_call.name = "calculator"
     /\ tool_outcome # NoOutcome
     /\ \E i \in 1..Len(tool_call.args) :
           CharAt(tool_call.args, i) \notin ClaimedChars) =>
        /\ ~tool_outcome.raised
        /\ IsErrorResult(tool_outcome.text)
        /\ evaluated = <<>>

\* the characters a Python name or string literal is written with
NameChars ==
    Range(Chars("abcdefghijklmnopqrstuvwxyzABCDEFGHIJKLMNOPQRSTUVWXYZ_'\""))

\* the input holds nothing but disallowed characters and parentheses
OnlyDisallowedAndParentheses(expression) ==
    /\ expression # ""
    /\ \A i \in 1..Len(expression) :
          \/ CharAt(expression, i) \notin AllowedChars
          \/ CharAt(expression, i) \in {"(", ")"}

(***************************************************************************)
(* C21 as stated: what the calculator evaluates holds no letter,           *)
(* underscore or quote; an input that is empty or sanitizes to the empty   *)
(* string returns an error result; and an input made only of disallowed    *)
(* characters and parentheses, such as "__import__('os')", returns an      *)
(* error result, not a "Result:" value.                                    *)
(***************************************************************************)
C21_NamesNeverEvaluated ==
    (tool_call.name = "calculator" /\ tool_outcome # NoOutcome) =>
        /\ \A k \in 1..Len(evaluated) :
              Range(Chars(evaluated[k])) \cap NameChars = {}
        /\ Sanitize(tool_call.args) = "" =>
              IsErrorResult(tool_outcome.text)
        /\ OnlyDisallowedAndParentheses(tool_call.args) =>
              /\ IsErrorResult(tool_outcome.text)
              /\ ~StartsWith(tool_outcome.text, "Result:")

HasSurrogate(text) == \E i \in 1..Len(text) : IsSurrogate(text[i])

\* the text was encoded by the first call
EncodedFirst ==
    codec_results # <<>> /\ codec_results[1].operation = "base64_encode"

\* the second call returned "Base64 decoded: " followed by the text
DecodedBack ==
    /\ codec_results[2].prefix = "Base64 decoded: "
    /\ codec_results[2].body = codec_text

(***************************************************************************)
(* C22 as stated: for every text t, encoding t with base64_encode gives a  *)
(* payload, and decoding that payload with base64_decode returns exactly   *)
(* "Base64 decoded: " followed by t.                                       *)
(***************************************************************************)
C22_RoundTripOfEveryText ==
    EncodedFirst =>
        /\ codec_results[1].prefix = "Base64 encoded: "
        /\ Len(codec_results) = 2 => DecodedBack

(***************************************************************************)
(* C22: for every text t that holds no surrogate code point, encoding t    *)
(* and decoding the payload returns exactly "Base64 decoded: " followed by *)
(* t, the payload being made of Base64 characters only, four for every     *)
(* three bytes; for a text with a surrogate code point the encoding        *)
(* returns an "Error:" result and there is no payload.                     *)
(***************************************************************************)
C22_Base64RoundTrip ==
    EncodedFirst =>
        IF HasSurrogate(codec_text)
        THEN /\ StartsWith(codec_results[1].prefix, "Error: ")
             /\ Len(codec_results) = 1
        ELSE /\ codec_results[1].prefix = "Base64 encoded: "
             /\ \A i \in 1..Len(codec_results[1].body) :
                   \/ IsB64Char(codec_results[1].body[i])
                   \/ codec_results[1].body[i] = B64Pad
             /\ Len(codec_results[1].body) % 4 = 0
             /\ Len(codec_results) = 2 => DecodedBack

\* a text of MaxText code points, some outside ASCII, whose bytes are not a
\* multiple of three, has come back from the two calls
C22_Witness ==
    /\ Len(codec_results) = 2
    /\ Len(codec_text) = MaxText
    /\ \E i \in 1..MaxText : codec_text[i] > 127
    /\ codec_results[1].body[Len(codec_results[1].body)] = B64Pad
    /\ DecodedBack

\* a step in which the agent node of the tool-aware graph returned a response
ModelStepDone ==
    agent = "agent" /\ model_steps' = model_steps + 1 /\ node' # "raised"

\* the tool calls the latest message of the state asks for
RequestedCalls(st) ==
    IF st.messages = <<>> THEN <<>> ELSE Last(st.messages).tool_calls

(***************************************************************************)
(* C23: after each model step the tool-aware graph goes to END if the      *)
(* response has no tool calls or iteration_count has reached               *)
(* MAX_ITERATIONS, and to the tool step otherwise.  The cap comes first:   *)
(* the tool calls of a response given when the cap is reached are never    *)
(* executed.                                                               *)
(***************************************************************************)
C23_EdgeAfterModelStep ==
    /\ [][ModelStepDone =>
            node' = IF \/ RequestedCalls(state') = <<>>
                       \/ state'.iteration_count >= MAX_ITERATIONS
                    THEN "END"
                    ELSE "tools"]_vars
    /\ []((agent = "agent" /\ node = "END") =>
            \A i \in 1..Len(RequestedCalls(state)) :
                \A j \in 1..Len(executed) :
                    executed[j].id # RequestedCalls(state)[i].id)

\* the response of the last allowed model step asked for tools and the run
\* ended without executing them, after an earlier tool step
C23_Witness ==
    /\ agent = "agent"
    /\ node = "END"
    /\ MAX_ITERATIONS = MaxCap
    /\ state.iteration_count = MAX_ITERATIONS
    /\ Len(RequestedCalls(state)) = MaxCalls
    /\ tool_steps = MAX_ITERATIONS - 1
    /\ Len(executed) >= 1

(***************************************************************************)
(* C24: in the tool-aware graph model steps and tool steps alternate.  A   *)
(* tool step comes right after one model step, whose response asked for    *)
(* tools, and is followed by one model step: after a tool step the next    *)
(* node is the agent node, never END and never the tools node again, and   *)
(* the agent node then runs.  The last message of the state a run ends     *)
(* with is an assistant message, never a tool message.                     *)
(***************************************************************************)
C24_ToolStepBetweenModelSteps ==
    /\ [][(agent = "agent" /\ tool_steps' = tool_steps + 1) =>
            /\ node = "tools"
            /\ model_steps = tool_steps + 1
            /\ node' \in {"agent", "raised"}]_vars
    /\ [][(ToolStepDone /\ agent = "agent") =>
            /\ node' = "agent"
            /\ Last(state'.messages).type = "tool"]_vars
    /\ []((agent = "agent" /\ node = "tools") =>
            /\ model_steps = tool_steps + 1
            /\ Last(state.messages).type = "ai"
            /\ RequestedCalls(state) # <<>>)
    /\ []((agent = "agent" /\ node = "agent") => model_steps = tool_steps)
    /\ []((agent = "agent" /\ node = "END") =>
            /\ model_steps = tool_steps + 1
            /\ Last(state.messages).type = "ai")
    /\ \A k \in 1..MaxCap :
          (agent = "agent" /\ node = "agent" /\ tool_steps = k)
              ~> (model_steps = k + 1)

\* a run of model step, tool step, model step that ended with an answer
C24_Witness ==
    /\ agent = "agent"
    /\ node = "END"
    /\ model_steps = 2
    /\ tool_steps = 1
    /\ Len(state.messages) >= 4
    /\ state.messages[Len(state.messages) - 1].type = "tool"
    /\ Last(state.messages).type = "ai"
    /\ RequestedCalls(state) = <<>>

\* s is the beginning of t
IsPrefix(s, t) == Len(s) <= Len(t) /\ SubSeq(t, 1, Len(s)) = s

(***************************************************************************)
(* C25: over a run of the graph AgentState.messages only grows at its end: *)
(* in every step the messages before the step are an unchanged prefix of   *)
(* the messages after it, a model step appends exactly one assistant       *)
(* message and a tool step appends tool messages only.                     *)
(***************************************************************************)
C25_MessagesAppendOnly ==
    [][/\ IsPrefix(state.messages, state'.messages)
       /\ (model_steps' = model_steps + 1 /\ node' # "raised") =>
             /\ Len(Appended) = 1
             /\ Appended[1].type = "ai"
       /\ ToolStepDone =>
             /\ Len(Appended) >= 1
             /\ \A i \in 1..Len(Appended) : Appended[i].type = "tool"
       /\ node' = "raised" => state'.messages = state.messages]_vars

\* five messages after two model steps and a tool step of MaxCalls calls
C25_Witness ==
    /\ agent = "agent"
    /\ node = "END"
    /\ Len(state.messages) = 2 + MaxCalls + 1
    /\ state.messages[1].type = "human"
    /\ state.messages[2].type = "ai"
    /\ state.messages[3].type = "tool"
    /\ Last(state.messages).type = "ai"

(***************************************************************************)
(* C26: iteration_count starts at 0, a model step adds exactly 1 to it and *)
(* a tool step leaves it as it is, so that while the run has not been      *)
(* aborted it is the number of model invocations made so far; a model step *)
(* leaves tool_results as they are.                                        *)
(***************************************************************************)
C26_IterationCountCountsModelSteps ==
    /\ [](model_steps = 0 => state.iteration_count = 0)
    /\ [](node # "raised" =>
            state.iteration_count = model_steps /\ llm_calls = model_steps)
    /\ [][/\ (model_steps' = model_steps + 1 /\ node' # "raised") =>
                /\ state'.iteration_count = state.iteration_count + 1
                /\ state'.tool_results = state.tool_results
          /\ tool_steps' = tool_steps + 1 =>
                state'.iteration_count = state.iteration_count]_vars

\* the second model step of a run that has tool results
C26_Witness ==
    /\ agent = "agent"
    /\ node = "END"
    /\ state.iteration_count = 2
    /\ model_steps = 2
    /\ tool_steps = 1
    /\ Len(state.tool_results) = MaxCalls

\* the entries a step has added to tool_results
AppendedResults ==
    SubSeq(state'.tool_results, Len(state.tool_results) + 1,
           Len(state'.tool_results))

\* what the registered tool of the call returns, when it returns
ResultOf(call) ==
    IF call.name = "calculator" THEN calculator(call.args) ELSE ""

(***************************************************************************)
(* C27: a tool step over an assistant message with the tool calls c1..ck   *)
(* appends exactly k tool messages, the i-th with the id of ci, and        *)
(* exactly k entries to tool_results, the i-th with the name of ci and the *)
(* whole content of the i-th tool message, which for a calculator call is  *)
(* the whole text the calculator returns.                                  *)
(***************************************************************************)
C27_OneToolMessagePerCall ==
    [][ToolStepDone =>
          LET calls == RequestedCalls(state)
          IN  /\ Len(Appended) = Len(calls)
              /\ Len(AppendedResults) = Len(calls)
              /\ IsPrefix(state.tool_results, state'.tool_results)
              /\ \A i \in 1..Len(calls) :
                    /\ Appended[i].type = "tool"
                    /\ Appended[i].tool_call_id = calls[i].id
                    /\ Appended[i].name = calls[i].name
                    /\ AppendedResults[i].tool = calls[i].name
                    /\ AppendedResults[i].result = Appended[i].content
                    /\ calls[i].name = "calculator" =>
                          AppendedResults[i].result = ResultOf(calls[i])]_vars

\* a tool step answered MaxCalls calls with different results, in order
C27_Witness ==
    /\ agent = "agent"
    /\ tool_steps = 1
    /\ node = "agent"
    /\ Len(state.tool_results) = MaxCalls
    /\ state.tool_results[1].result = "Result: 4"
    /\ state.tool_results[2].result = "Error: Division by zero"
    /\ Last(state.messages).tool_call_id = <<1, MaxCalls>>

\* the tool-call ids the assistant messages before position i asked for
RequestedBefore(msgs, i) ==
    UNION {{msgs[j].tool_calls[k].id : k \in 1..Len(msgs[j].tool_calls)} :
              j \in {m \in 1..(i - 1) : msgs[m].type = "ai"}}

\* the tool-call ids the tool messages before position i answer
AnsweredBefore(msgs, i) ==
    {msgs[j].tool_call_id : j \in {m \in 1..(i - 1) : msgs[m].type = "tool"}}

(***************************************************************************)
(* C28: in every reachable AgentState each tool message carries one        *)
(* tool-call id, which an assistant message earlier in the sequence asked  *)
(* for and which no earlier tool message has answered.                     *)
(***************************************************************************)
C28_ToolMessagesAnswerRequests ==
    \A i \in 1..Len(state.messages) :
        state.messages[i].type = "tool" =>
            /\ state.messages[i].tool_call_id # NoId
            /\ state.messages[i].tool_call_id \in RequestedBefore(state.messages, i)
            /\ state.messages[i].tool_call_id \notin AnsweredBefore(state.messages, i)

\* the MaxCalls calls of the first response are answered, one message each
C28_Witness ==
    /\ agent = "agent"
    /\ tool_steps = 1
    /\ Cardinality({i \in 1..Len(state.messages) :
                       state.messages[i].type = "tool"}) = MaxCalls
    /\ AnsweredBefore(state.messages, Len(state.messages) + 1)
          = RequestedBefore(state.messages, Len(state.messages))

RunningCalls == {i \in 1..Len(workers) : workers[i] = "running"}

(***************************************************************************)
(* C29 as stated: the tool calls of one model turn execute strictly one    *)
(* after another: at no time are two of them in progress, and a call       *)
(* begins only when the call before it has finished.                       *)
(***************************************************************************)
C29_ToolCallsOneAfterAnother ==
    /\ Cardinality(RunningCalls) <= 1
    /\ \A i \in 2..Len(workers) :
          workers[i] # "queued" => workers[i - 1] = "done"

(***************************************************************************)
(* C30 as stated: the message record of a successful agent-mode stream     *)
(* carries the content of the last model response of the streamed          *)
(* execution, the one whose tool_call and tool_result records precede it,  *)
(* whatever the model answers.                                             *)
(***************************************************************************)
C30_MessageOfStreamedExecution ==
    (EndedWithoutError /\ agent # "none") =>
        /\ streamed # <<>>
        /\ \A i \in EventIndexes("message") :
              events[i].content = streamed[1].content

(***************************************************************************)
(* C31: for every initial message list whose first message is not a system *)
(* message, a system message at a later position included, the request a   *)
(* graph sends to the model begins with the system prompt.                 *)
(***************************************************************************)
C31_PromptFirstUnlessSystemFirst ==
    (/\ llm_calls >= 1
     /\ ~(state.messages # <<>> /\ state.messages[1].type = "system")) =>
        /\ llm_input.messages # <<>>
        /\ llm_input.messages[1] = SystemMessage(get_system_prompt)


(***************************************************************************)
(* C32: every run of a graph makes at least one model call, whatever the   *)
(* cap.  With a cap N >= 1 the iteration_count of a run that has ended is  *)
(* in 1..N.  With a cap N <= 0 the run makes exactly one model call,       *)
(* executes no tool and ends with iteration_count = 1, above the cap.      *)
(***************************************************************************)
C32_OneModelCallWhateverTheCap ==
    /\ GraphTerminated => model_steps >= 1
    /\ (node = "END" /\ MAX_ITERATIONS >= 1) =>
            state.iteration_count \in 1..MAX_ITERATIONS
    /\ MAX_ITERATIONS <= 0 =>
            /\ model_steps <= 1
            /\ tool_steps = 0
            /\ executed = <<>>
            /\ node # "tools"
            /\ node = "END" =>
                 /\ model_steps = 1
                 /\ state.iteration_count = 1
                 /\ state.iteration_count > MAX_ITERATIONS

\* with a cap below 1 the model asked for tools in its only response and the
\* run ended without executing them
C32_Witness ==
    /\ MAX_ITERATIONS <= 0
    /\ agent = "agent"
    /\ node = "END"
    /\ model_steps = 1
    /\ state.iteration_count = 1
    /\ Len(RequestedCalls(state)) >= 1


\* the tool messages of the state, in the order of the message list
ToolMessagesOf(st) == SelectSeq(st.messages, LAMBDA msg : msg.type = "tool")

(***************************************************************************)
(* C33: in every state of a graph run started with empty tool_results and  *)
(* no tool message, tool_results has as many entries as messages has tool  *)
(* messages, and the i-th entry holds the name and the content of the i-th *)
(* tool message.                                                           *)
(***************************************************************************)
C33_ToolResultsMirrorToolMessages ==
    /\ Len(state.tool_results) = Len(ToolMessagesOf(state))
    /\ \A i \in 1..Len(state.tool_results) :
         /\ state.tool_results[i].tool = ToolMessagesOf(state)[i].name
         /\ state.tool_results[i].result = ToolMessagesOf(state)[i].content

\* a run that ended after a tool step whose result is longer than the limit
\* of a displayed result
C33_Witness ==
    /\ agent = "agent"
    /\ node = "END"
    /\ tool_steps = 1
    /\ Len(state.tool_results) >= 1
    /\ Len(state.tool_results[1].result) > DisplayLimit
    /\ state.tool_results[1].tool = "calculator"


\* the positions of the terminal records, done and error, among the events
TerminalIndexes == EventIndexes("done") \cup EventIndexes("error")

\* the generator stands at a statement it can execute
Resumable ==
    \/ pc \in {"start", "create_graph", "simple_llm", "emit_done"}
    \/ pc = "astream" /\ (pending # NoChunk \/ node \in {"agent", "tools", "END"})
    \/ pc = "invoke" /\ node \in {"agent", "tools", "END"}

\* how far the generator has come: its position first, and at one position
\* the model calls made, the tool calls executed and the chunks handled
Position ==
    CASE pc = "start" -> 0
      [] pc \in {"create_graph", "simple_llm"} -> 1
      [] pc = "astream" -> 2
      [] pc = "invoke" -> 3
      [] pc = "emit_done" -> 4
      [] OTHER -> 5

Progress ==
    2 * (llm_calls + Len(executed)) - (IF pending # NoChunk THEN 1 ELSE 0)

(***************************************************************************)
(* C34: a run of agent_stream_generator that is not cancelled ends, without *)
(* an exception leaving it, for every request: requests with a message     *)
(* lacking its role or content key and failures while the graph is built   *)
(* included.  A finished run holds exactly one terminal record, a done or  *)
(* an error record, as its last record; at most one error record is ever   *)
(* emitted and no record follows an error record.  A run that has not      *)
(* finished stands at a statement it can execute, and every step brings it *)
(* forward.                                                                *)
(***************************************************************************)
C34_OneTerminalEvent ==
    /\ [](/\ Cardinality(TerminalIndexes) <= 1
          /\ TerminalIndexes \subseteq {Len(events)}
          /\ Cardinality(EventIndexes("error")) <= 1
          /\ Finished <=> TerminalIndexes # {}
          /\ (failure # "none") <=> (EventIndexes("error") # {})
          /\ Finished \/ Resumable)
    /\ [][EventIndexes("error") # {} => events' = events]_vars
    /\ [][\/ Position' > Position
          \/ Position' = Position /\ Progress' > Progress]_vars

\* the graph could not be built: the error record follows the status record
C34_Witness ==
    /\ Finished
    /\ failure \in BuildFailures
    /\ Len(events) = 2
    /\ events[1].type = "status"
    /\ events[2].type = "error"
    /\ Count("done") = 0



\* the user-role messages of the request, in request order
UserMessages == SelectSeq(messages, LAMBDA msg : msg.role = "user")

(***************************************************************************)
(* C35: on the no-tool path (tool_choice "none", or agent mode disabled)   *)
(* the model is invoked once, without tools, with exactly the user-role    *)
(* messages of the request in request order: no system prompt is put in    *)
(* front and no message of another role is passed.                         *)
(***************************************************************************)
C35_SimplePathInput ==
    ((tool_choice = "none" \/ ~ENABLE_AGENT_MODE) /\ llm_calls >= 1) =>
        /\ llm_calls = 1
        /\ ~llm_input.bound
        /\ Len(llm_input.messages) = Len(UserMessages)
        /\ \A i \in 1..Len(UserMessages) :
             llm_input.messages[i] = HumanMessage(UserMessages[i].content)

\* the request with a system, an assistant and two user messages, served
\* with tool_choice "none": the model received the two user messages
C35_Witness ==
    /\ tool_choice = "none"
    /\ ENABLE_AGENT_MODE
    /\ Len(messages) = 4
    /\ messages[1].role = "system"
    /\ llm_calls = 1
    /\ Len(llm_input.messages) = 2
    /\ llm_input.messages[1].content = "Hi"
    /\ EndedWithoutError


\* the steps the generator can take when its tool_choice argument is choice
NextWith(choice) ==
    \/ BeginWith(choice)
    \/ CreateGraph
    \/ call_model
    \/ simple_call_model
    \/ execute_tools
    \/ StreamEvent
    \/ InvokeFinal
    \/ FinalMessage
    \/ SimpleLLM
    \/ Done

(***************************************************************************)
(* C36: tool_choice "required" is handled exactly like "auto".  Every step *)
(* of a request made with one of the two values, with its model calls,     *)
(* tool executions and emitted records, is a step the same request takes   *)
(* with the other value, so both give the same runs for the same messages, *)
(* model behaviour and configuration.  "required" forces no tool call: a   *)
(* model call of such a request gets the tools bound as with "auto", and   *)
(* the model may answer without calling one.                               *)
(***************************************************************************)
C36_RequiredHandledAsAuto ==
    /\ [][/\ tool_choice = "required" => NextWith("auto")
          /\ tool_choice = "auto" => NextWith("required")]_vars
    /\ [](tool_choice \in {"auto", "required"} /\ pc # "start"
            /\ failure # "KeyError" =>
                events[1] = StatusEvent(IF ENABLE_AGENT_MODE
                                        THEN "Agent mode activated"
                                        ELSE "Simple chat mode"))

\* a request with tool_choice "required", served by the tool-aware graph,
\* that ended without any tool call
C36_Witness ==
    /\ tool_choice = "required"
    /\ ENABLE_AGENT_MODE
    /\ agent = "agent"
    /\ EndedWithoutError
    /\ Count("tool_call") = 0
    /\ Count("message") = 1
    /\ llm_input.bound


\* the output without its error line, if it ends with one
LinesBeforeError ==
    IF output # <<>> /\ IsErrorLine(Last(output))
    THEN SubSeq(output, 1, Len(output) - 1)
    ELSE output

(***************************************************************************)
(* C37: at every moment the output of ollama_stream_generator holds at     *)
(* most one error line, at its last position, and the lines before it are  *)
(* the non-empty backend lines read so far, unchanged and in order.  When  *)
(* the backend fails after n lines were forwarded, the output is those n   *)
(* lines followed by the error line of the failure.                        *)
(***************************************************************************)
C37_ForwardedLinesThenErrorLine ==
    /\ Cardinality(ErrorLinesOf(output)) <= 1
    /\ ErrorLinesOf(output) \subseteq {Len(output)}
    /\ LinesBeforeError = ForwardedSoFar
    /\ ErrorLinesOf(output) # {} => (ppc = "closed" /\ backend.fault # "none")
    /\ (ppc = "closed" /\ backend.fault # "none") =>
          output = Append(ForwardedSoFar, ErrorLine(ErrorMessage(backend.fault)))

\* the response breaks off after MaxLines non-empty lines were forwarded
C37_Witness ==
    /\ ppc = "closed"
    /\ backend.fault = "RemoteProtocolError"
    /\ received = MaxLines
    /\ \A i \in 1..MaxLines : backend.lines[i] # ""
    /\ Len(output) = MaxLines + 1
    /\ ErrorLinesOf(output) = {MaxLines + 1}

====
